---- MODULE Spec2Model ----
(***************************************************************************)
(* podx: secret encryption engine.                                         *)
(*                                                                         *)
(* File contents, paths, patterns and passwords are sequences of byte      *)
(* values (ASCII codes, 0..255).  The octets produced by the external      *)
(* cryptographic libraries (age, AES-GCM, ChaCha20-Poly1305, base64 of     *)
(* those) are sequences of numbers above 255: they never equal a text      *)
(* byte, and each library is an injective encoding that its inverse        *)
(* accepts only when it was produced with the matching key.                *)
(***************************************************************************)
EXTENDS Integers, Sequences, FiniteSets, TLC

VARIABLES
    fs,        \* the directory: path -> [data, mode, acc]
    dirW,      \* TRUE when entries can be created in or removed from the directory
    cfg,       \* project.Config: [version, recipients: of [Name, Key], secrets]
    identity,  \* the local age identity (0: no identity file)
    rnd,       \* source of fresh randomness (crypto/rand), a counter
    pc,        \* position of the running operation, "idle" when none runs
    run,       \* the running operation's local variables
    ret,       \* what the last operation returned
    fs0,       \* the directory when the current (or last) operation started
    prev,      \* the operation before the current one: [ret, fs0, run]
    touched,   \* paths read, written or removed by the current operation
    done,      \* files completely processed by the current operation, in order
    runs,      \* number of operations started
    args,      \* what the user passes to the single-file commands
    macs,      \* authentication tags issued by the AEAD ciphers: tag -> what it seals
    tampered,  \* TRUE once a byte of a sealed file was altered behind the program
    app,       \* tui.App: the state of the terminal interface
    fileBrowser \* tui.FileBrowserModel: the file browser of the terminal interface

vars == <<fs, dirW, cfg, identity, rnd, pc, run, ret, fs0, prev, touched, done, runs,
          args, macs, tampered, app, fileBrowser>>

----------------------------------------------------------------------------
(* Bounds *)

MaxRuns == 2

----------------------------------------------------------------------------
(* Go strings package, on byte sequences *)

Max(S) == CHOOSE m \in S : \A n \in S : n <= m

Min(S) == CHOOSE m \in S : \A n \in S : m <= n

HasPrefix(s, p) == Len(s) >= Len(p) /\ SubSeq(s, 1, Len(p)) = p

HasSuffix(s, p) == Len(s) >= Len(p) /\ SubSeq(s, Len(s) - Len(p) + 1, Len(s)) = p

TrimPrefix(s, p) == IF HasPrefix(s, p) THEN SubSeq(s, Len(p) + 1, Len(s)) ELSE s

TrimSuffix(s, p) == IF HasSuffix(s, p) THEN SubSeq(s, 1, Len(s) - Len(p)) ELSE s

\* unicode.IsSpace on the ASCII range: \t \n \v \f \r and space
IsSpace(c) == c \in {9, 10, 11, 12, 13, 32}

TrimSpace(s) ==
    LET keep == {i \in 1..Len(s) : ~IsSpace(s[i])}
    IN  IF keep = {} THEN <<>> ELSE SubSeq(s, Min(keep), Max(keep))

\* strings.Index(s, string(c)) + 1: position of the first c, 0 when there is none
Index(s, c) ==
    LET at == {i \in 1..Len(s) : s[i] = c}
    IN  IF at = {} THEN 0 ELSE Min(at)

RECURSIVE Split(_, _)
Split(s, sep) ==
    LET i == Index(s, sep)
    IN  IF i = 0 THEN <<s>>
        ELSE <<SubSeq(s, 1, i - 1)>> \o Split(SubSeq(s, i + 1, Len(s)), sep)

RECURSIVE Join(_, _)
Join(parts, sep) ==
    IF Len(parts) = 0 THEN <<>>
    ELSE IF Len(parts) = 1 THEN parts[1]
    ELSE parts[1] \o <<sep>> \o Join(Tail(parts), sep)

\* filepath.Base for paths without a trailing separator
Base(p) ==
    LET at == {i \in 1..Len(p) : p[i] = 47}
    IN  IF at = {} THEN p ELSE SubSeq(p, Max(at) + 1, Len(p))

\* filepath.Match restricted to literals, '?' and '*'
RECURSIVE Match(_, _)
Match(pat, name) ==
    IF Len(pat) = 0 THEN Len(name) = 0
    ELSE IF pat[1] = 42
         THEN \E k \in 0..Len(name) :
                 /\ \A i \in 1..k : name[i] # 47
                 /\ Match(Tail(pat), SubSeq(name, k + 1, Len(name)))
    ELSE IF Len(name) = 0 THEN FALSE
    ELSE IF pat[1] = 63 THEN name[1] # 47 /\ Match(Tail(pat), Tail(name))
    ELSE pat[1] = name[1] /\ Match(Tail(pat), Tail(name))

\* byte-wise order of two paths (sort.Strings)
RECURSIVE Less(_, _)
Less(a, b) ==
    IF Len(b) = 0 THEN FALSE
    ELSE IF Len(a) = 0 THEN TRUE
    ELSE IF a[1] # b[1] THEN a[1] < b[1]
    ELSE Less(Tail(a), Tail(b))

RECURSIVE Sorted(_)
Sorted(S) ==
    IF S = {} THEN <<>>
    ELSE LET m == CHOOSE x \in S : \A y \in S \ {x} : Less(x, y)
         IN  <<m>> \o Sorted(S \ {m})

Range(s) == {s[i] : i \in 1..Len(s)}

----------------------------------------------------------------------------
(* Text constants of the program *)

EncryptedExt == <<46, 112, 111, 100, 120>>                 \* ".podx"

EnvName == <<46, 101, 110, 118>>                           \* ".env"

EncMark == <<69, 78, 67, 91>>                              \* "ENC["

EncAgeMark == <<69, 78, 67, 91, 97, 103, 101, 58>>          \* "ENC[age:"

Ok(v) == [ok |-> TRUE, val |-> v]

Err == [ok |-> FALSE, val |-> <<>>]

----------------------------------------------------------------------------
(* encoding/base64, StdEncoding *)

\* value of one character of the base64 alphabet, -1 for any other byte
B64Index(c) ==
    IF c >= 65 /\ c <= 90 THEN c - 65
    ELSE IF c >= 97 /\ c <= 122 THEN c - 71
    ELSE IF c >= 48 /\ c <= 57 THEN c + 4
    ELSE IF c = 43 THEN 62
    ELSE IF c = 47 THEN 63
    ELSE -1

\* Ciphertext octets (numbers above 255) are carried one per character, shifted
\* into a range of their own: the encoded text holds no '=', ']', '#', space or
\* newline that the callers' parsing could meet.
B64Encode(bytes) == [i \in 1..Len(bytes) |-> 10000 + bytes[i]]

\* DecodeString: the inverse on encoded ciphertext; base64 text, padded with
\* '=' to a multiple of four characters, decodes to the bytes it spells, four
\* characters to three bytes; anything else is a CorruptInputError.
B64Decode(s) ==
    LET n    == Len(s)
        pad  == IF n >= 2 /\ s[n] = 61 /\ s[n - 1] = 61 THEN 2
                ELSE IF n >= 1 /\ s[n] = 61 THEN 1
                ELSE 0
        body == [i \in 1..n |-> IF i > n - pad THEN 65 ELSE s[i]]
    IN  IF \A i \in 1..n : s[i] >= 10000
        THEN Ok([i \in 1..n |-> s[i] - 10000])
        ELSE IF n % 4 = 0 /\ \A i \in 1..n : B64Index(body[i]) >= 0
        THEN Ok([j \in 1..(3 * (n \div 4) - pad) |->
                   LET g == 4 * ((j - 1) \div 3)
                       v == B64Index(body[g + 1]) * 262144 + B64Index(body[g + 2]) * 4096
                            + B64Index(body[g + 3]) * 64 + B64Index(body[g + 4])
                   IN  CASE (j - 1) % 3 = 0 -> v \div 65536
                         [] (j - 1) % 3 = 1 -> (v \div 256) % 256
                         [] OTHER -> v % 256])
        ELSE Err

----------------------------------------------------------------------------
(* filippo.io/age behind crypto.AgeEncrypt / crypto.AgeDecrypt *)

\* Keys: identity i (1..NumIdentities) has the public key i; the key 0 is a
\* recipient string that age.ParseX25519Recipient rejects.
NumIdentities == 2

ValidRecipient(k) == k \in 1..NumIdentities

\* An age file sealed with file key r for the recipients keys:
\* header mark, one stanza per recipient, payload mark, payload.
AgeEncrypt(plaintext, keys, r) ==
    IF \E i \in 1..Len(keys) : ~ValidRecipient(keys[i]) THEN Err
    ELSE IF Len(keys) = 0 THEN Err
    ELSE Ok(<<1000>> \o [i \in 1..Len(keys) |-> 1100 + 10 * r + keys[i]]
            \o <<1001>> \o [i \in 1..Len(plaintext) |-> 2000 + 256 * r + plaintext[i]])

AgeDecrypt(ciphertext, id) ==
    LET sep == Index(ciphertext, 1001)
    IN  IF id = 0 \/ Len(ciphertext) < 2 \/ ciphertext[1] # 1000 \/ sep = 0 THEN Err
        ELSE LET stanzas == SubSeq(ciphertext, 2, sep - 1)
                 body    == SubSeq(ciphertext, sep + 1, Len(ciphertext))
                 mine    == {i \in 1..Len(stanzas) :
                               /\ stanzas[i] >= 1100 /\ stanzas[i] < 2000
                               /\ (stanzas[i] - 1100) % 10 = id}
             IN  IF mine = {} THEN Err
                 ELSE LET r == (stanzas[Min(mine)] - 1100) \div 10
                      IN  IF \A i \in 1..Len(body) :
                                 body[i] >= 2000 + 256 * r /\ body[i] < 2256 + 256 * r
                          THEN Ok([i \in 1..Len(body) |-> body[i] - 2000 - 256 * r])
                          ELSE Err

----------------------------------------------------------------------------
(* crypto: Argon2id key derivation and the two AEAD ciphers *)

SaltSize == 16

argon2KeyLen == 32

AESKeySize == 32

AESNonceSize == 12

ChaChaKeySize == 32

ChaChaNonceSize == 12

AlgoAESGCM == <<97, 101, 115, 45, 103, 99, 109>>              \* "aes-gcm"

AlgoChaCha20 == <<99, 104, 97, 99, 104, 97, 50, 48>>          \* "chacha20"

RECURSIVE Sum(_)
Sum(s) == IF Len(s) = 0 THEN 0 ELSE s[1] + Sum(Tail(s))

\* io.ReadFull(rand.Reader, buf): the n bytes of the draw numbered r
RandBytes(n, r) == [i \in 1..n |-> (r % 256)]

\* argon2.IDKey: a key is determined by the password and the salt, and two
\* keys are equal only when both are
IDKey(password, salt) == [pw |-> password, salt |-> salt, len |-> argon2KeyLen]

\* DeriveKey(password, nil): a fresh salt, then the key
DeriveKey(password, r) ==
    LET salt == RandBytes(SaltSize, r)
    IN  IF Len(salt) # SaltSize THEN [ok |-> FALSE, key |-> <<>>, salt |-> <<>>]
        ELSE [ok |-> TRUE, key |-> IDKey(password, salt), salt |-> salt]

DeriveKeyWithSalt(password, salt) ==
    IF Len(salt) # SaltSize THEN Err ELSE Ok(IDKey(password, salt))

\* the key stream byte of a key and a nonce
Stream(key, nonce) == (Sum(key.pw) + Sum(key.salt) + Sum(nonce)) % 256

\* one plaintext octet under the key stream, and back
Mask(b, k) == IF b < 256 THEN 256 + ((b + k) % 256) ELSE 100000 + b

Unmask(c, k) == IF c >= 100000 THEN c - 100000 ELSE (c - k) % 256

\* cipher.AEAD.Seal(nonce, nonce, plaintext, nil) with the nonce of the draw r:
\* nonce, masked plaintext, authentication tag; the tag of the draw r is 3000 + r
Seal(plaintext, key, size, r) ==
    LET nonce == RandBytes(size, r)
        k     == Stream(key, nonce)
    IN  nonce \o [i \in 1..Len(plaintext) |-> Mask(plaintext[i], k)] \o <<3000 + r>>

\* what the tag of Seal authenticates: cipher, key, nonce and masked plaintext
Sealed(algo, plaintext, key, size, r) ==
    LET nonce == RandBytes(size, r)
        k     == Stream(key, nonce)
    IN  <<algo, key, nonce, [i \in 1..Len(plaintext) |-> Mask(plaintext[i], k)]>>

\* cipher.AEAD.Open(nil, nonce, data, nil): the plaintext when the tag at the
\* end of data was issued for this cipher, key, nonce and masked plaintext
Open(algo, nonce, data, key) ==
    IF Len(data) = 0 THEN Err
    ELSE LET body == SubSeq(data, 1, Len(data) - 1)
             t    == data[Len(data)] - 3000
         IN  IF t \in DOMAIN macs /\ macs[t] = <<algo, key, nonce, body>>
             THEN Ok([i \in 1..Len(body) |-> Unmask(body[i], Stream(key, nonce))])
             ELSE Err

AESGCMEncrypt(plaintext, key, r) ==
    IF key.len # AESKeySize THEN Err ELSE Ok(Seal(plaintext, key, AESNonceSize, r))

AESGCMDecrypt(ciphertext, key) ==
    IF key.len # AESKeySize THEN Err
    ELSE IF Len(ciphertext) < AESNonceSize THEN Err
    ELSE Open(AlgoAESGCM, SubSeq(ciphertext, 1, AESNonceSize),
              SubSeq(ciphertext, AESNonceSize + 1, Len(ciphertext)), key)

ChaCha20Encrypt(plaintext, key, r) ==
    IF key.len # ChaChaKeySize THEN Err ELSE Ok(Seal(plaintext, key, ChaChaNonceSize, r))

ChaCha20Decrypt(ciphertext, key) ==
    IF key.len # ChaChaKeySize THEN Err
    ELSE IF Len(ciphertext) < ChaChaNonceSize THEN Err
    ELSE Open(AlgoChaCha20, SubSeq(ciphertext, 1, ChaChaNonceSize),
              SubSeq(ciphertext, ChaChaNonceSize + 1, Len(ciphertext)), key)

\* a mutation of NewEncryptor: every name gives an encryptor
NewEncryptorAny(algo) == TRUE

\* crypto.NewEncryptor succeeds
NewEncryptor(algo) == algo \in {AlgoAESGCM, AlgoChaCha20}

\* Encryptor.Encrypt / Encryptor.Decrypt of the encryptor NewEncryptor(algo)
Encrypt(algo, plaintext, key, r) ==
    IF algo = AlgoAESGCM THEN AESGCMEncrypt(plaintext, key, r)
    ELSE ChaCha20Encrypt(plaintext, key, r)

Decrypt(algo, ciphertext, key) ==
    IF algo = AlgoAESGCM THEN AESGCMDecrypt(ciphertext, key)
    ELSE ChaCha20Decrypt(ciphertext, key)

\* the entry of macs for an Encrypt with the draw r
Issued(algo, plaintext, key, r) ==
    Sealed(algo, plaintext, key,
           IF algo = AlgoAESGCM THEN AESNonceSize ELSE ChaChaNonceSize, r)

----------------------------------------------------------------------------
(* parser: .env files with encrypted values *)

\* bufio.ScanLines: the lines of data, each without its line end "\n" or
\* "\r\n"; nothing follows a final newline
ScanLines(data) ==
    LET parts == Split(data, 10)
        lines == IF parts[Len(parts)] = <<>> THEN SubSeq(parts, 1, Len(parts) - 1)
                 ELSE parts
    IN  [i \in 1..Len(lines) |-> TrimSuffix(lines[i], <<13>>)]

\* the class [a-zA-Z0-9-] of encryptedValuePattern
IsAlgoChar(c) ==
    \/ c >= 97 /\ c <= 122
    \/ c >= 65 /\ c <= 90
    \/ c >= 48 /\ c <= 57
    \/ c = 45

\* encryptedValuePattern.FindStringSubmatch(value): ^ENC\[([a-zA-Z0-9-]+):(.+)\]$
\* [ok, algo: the first group, val: the second group]
FindEncrypted(value) ==
    LET rest == SubSeq(value, Len(EncMark) + 1, Len(value))
        stop == {i \in 1..Len(rest) : ~IsAlgoChar(rest[i])}
        n    == IF stop = {} THEN Len(rest) ELSE Min(stop) - 1
    IN  IF /\ HasPrefix(value, EncMark)
           /\ n >= 1
           /\ Len(rest) >= n + 3
           /\ rest[n + 1] = 58
           /\ rest[Len(rest)] = 93
           /\ \A i \in (n + 2)..(Len(rest) - 1) : rest[i] # 10
        THEN [ok |-> TRUE, algo |-> SubSeq(rest, 1, n),
              val |-> SubSeq(rest, n + 2, Len(rest) - 1)]
        ELSE [ok |-> FALSE, algo |-> <<>>, val |-> <<>>]

CommentEntry(line) ==
    [Key |-> <<>>, Value |-> <<>>, Encrypted |-> FALSE, Algorithm |-> <<>>,
     Comment |-> line, Raw |-> line, IsComment |-> TRUE]

parseLine(line) ==
    LET trimmed == TrimSpace(line)
        idx     == Index(line, 61)
        key     == TrimSpace(SubSeq(line, 1, idx - 1))
        value   == SubSeq(line, idx + 1, Len(line))
        m       == FindEncrypted(value)
    IN  IF trimmed = <<>> \/ HasPrefix(trimmed, <<35>>) THEN CommentEntry(line)
        ELSE IF idx = 0 THEN CommentEntry(line)
        ELSE IF m.ok
        THEN [Key |-> key, Value |-> m.val, Encrypted |-> TRUE, Algorithm |-> m.algo,
              Comment |-> <<>>, Raw |-> line, IsComment |-> FALSE]
        ELSE [Key |-> key, Value |-> value, Encrypted |-> FALSE, Algorithm |-> <<>>,
              Comment |-> <<>>, Raw |-> line, IsComment |-> FALSE]

\* ParseEnvFile after the open: the entries of the content
ParseEnv(data) ==
    LET lines == ScanLines(data)
    IN  [i \in 1..Len(lines) |-> parseLine(lines[i])]

\* the line WriteEnvFile writes for an entry, without the newline
EntryLine(e) ==
    IF e.IsComment THEN e.Comment
    ELSE IF e.Encrypted
    THEN e.Key \o <<61>> \o EncMark \o e.Algorithm \o <<58>> \o e.Value \o <<93>>
    ELSE e.Key \o <<61>> \o e.Value

\* the content WriteEnvFile writes for the entries
RECURSIVE EnvText(_)
EnvText(entries) ==
    IF Len(entries) = 0 THEN <<>>
    ELSE EntryLine(entries[1]) \o <<10>> \o EnvText(Tail(entries))

\* EncryptEnvValues after NewEncryptor succeeded; r is the next unused draw.
\* Returns [ok, val: the entries as the pass leaves them, r, tags: what was
\* sealed, by draw].
RECURSIVE EncryptEntries(_, _, _, _)
EncryptEntries(entries, key, algo, r) ==
    IF Len(entries) = 0 THEN [ok |-> TRUE, val |-> <<>>, r |-> r, tags |-> <<>>]
    ELSE LET e == entries[1]
         IN  IF e.IsComment \/ e.Encrypted
             THEN LET rest == EncryptEntries(Tail(entries), key, algo, r)
                  IN  [rest EXCEPT !.val = <<e>> \o rest.val]
             ELSE LET ct == Encrypt(algo, e.Value, key, r)
                  IN  IF ~ct.ok
                      THEN [ok |-> FALSE, val |-> entries, r |-> r, tags |-> <<>>]
                      ELSE LET rest == EncryptEntries(Tail(entries), key, algo, r + 1)
                               enc  == [e EXCEPT !.Value = B64Encode(ct.val),
                                                 !.Encrypted = TRUE,
                                                 !.Algorithm = algo]
                           IN  [rest EXCEPT
                                  !.val = <<enc>> \o rest.val,
                                  !.tags = (r :> Issued(algo, e.Value, key, r)) @@ rest.tags]

\* a mutation of EncryptEnvValues: the entries that are already marked
\* encrypted are encrypted once more
EncryptEnvValuesAgain(entries, key, algo, r) ==
    IF ~NewEncryptor(algo) THEN [ok |-> FALSE, val |-> entries, r |-> r, tags |-> <<>>]
    ELSE EncryptEntries([i \in 1..Len(entries) |-> [entries[i] EXCEPT !.Encrypted = FALSE]],
                        key, algo, r)

EncryptEnvValues(entries, key, algo, r) ==
    IF ~NewEncryptor(algo) THEN [ok |-> FALSE, val |-> entries, r |-> r, tags |-> <<>>]
    ELSE EncryptEntries(entries, key, algo, r)

\* "# IRONVAULT_SALT="
SaltMark == <<35, 32, 73, 82, 79, 78, 86, 65, 85, 76, 84, 95, 83, 65, 76, 84, 61>>

----------------------------------------------------------------------------
(* The file system: one directory *)

ModeSecret == 384      \* 0600

ModePublic == 420      \* 0644

\* filepath.Clean on a relative path without "..": empty and "." elements go
Clean(p) ==
    LET parts == SelectSeq(Split(p, 47), LAMBDA x : x # <<>> /\ x # <<46>>)
    IN  IF Len(parts) = 0 THEN <<46>> ELSE Join(parts, 47)

\* os.Stat finds the entry
Exists(f, p) == Clean(p) \in DOMAIN f

\* os.ReadFile
ReadFile(f, p) ==
    IF Clean(p) \in DOMAIN f /\ f[Clean(p)].acc THEN Ok(f[Clean(p)].data) ELSE Err

Put(f, p, rec) == [q \in DOMAIN f \cup {p} |-> IF q = p THEN rec ELSE f[q]]

\* os.WriteFile and os.Create open with O_CREATE|O_TRUNC: an existing file must
\* be accessible and keeps its mode; a new one needs a writable directory.
CanOpen(f, w, p) == IF Clean(p) \in DOMAIN f THEN f[Clean(p)].acc ELSE w

OpenTrunc(f, p, mode) ==
    Put(f, Clean(p),
        [data |-> <<>>, mode |-> IF Clean(p) \in DOMAIN f THEN f[Clean(p)].mode ELSE mode,
         acc |-> TRUE])

WriteData(f, p, bytes) == Put(f, Clean(p), [f[Clean(p)] EXCEPT !.data = bytes])

\* os.Remove unlinks the entry: it needs the entry and a writable directory
CanRemove(f, w, p) == Clean(p) \in DOMAIN f /\ w

Remove(f, p) == [q \in DOMAIN f \ {Clean(p)} |-> f[q]]

\* filepath.Glob in the project directory: the matching entries, sorted
Glob(f, pattern) == Sorted({p \in DOMAIN f : Match(pattern, p)})

----------------------------------------------------------------------------
(* project: format-preserving codec of encrypt-all / decrypt-all *)

\* the test of EncryptAll and DecryptAll for the format-preserving codec
IsEnvName(baseName) == HasPrefix(baseName, EnvName) \/ HasSuffix(baseName, EnvName)

\* encryptEnvFile's loop over the lines; r is the next unused randomness.
\* Returns [ok, val: the result lines, r].
RECURSIVE EncryptEnvLines(_, _, _)
EncryptEnvLines(lines, keys, r) ==
    IF Len(lines) = 0 THEN [ok |-> TRUE, val |-> <<>>, r |-> r]
    ELSE LET line    == lines[1]
             trimmed == TrimSpace(line)
             idx     == Index(line, 61)
             key     == SubSeq(line, 1, idx - 1)
             value   == SubSeq(line, idx + 1, Len(line))
             keep    == \/ trimmed = <<>>
                        \/ HasPrefix(trimmed, <<35>>)
                        \/ idx = 0
                        \/ HasPrefix(value, EncMark)
         IN  IF keep
             THEN LET rest == EncryptEnvLines(Tail(lines), keys, r)
                  IN  [rest EXCEPT !.val = <<line>> \o rest.val]
             ELSE LET ct == AgeEncrypt(value, keys, r)
                  IN  IF ~ct.ok THEN [ok |-> FALSE, val |-> <<>>, r |-> r]
                      ELSE LET rest == EncryptEnvLines(Tail(lines), keys, r + 1)
                               enc  == key \o <<61>> \o EncAgeMark
                                       \o B64Encode(ct.val) \o <<93>>
                           IN  [rest EXCEPT !.val = <<enc>> \o rest.val]

\* a mutation of EncryptEnvData: every line is written with a newline
EncryptEnvDataNewline(data, keys, r) ==
    LET res == EncryptEnvLines(Split(data, 10), keys, r)
    IN  [ok |-> res.ok, val |-> Join(res.val, 10) \o <<10>>, r |-> res.r]

\* encryptEnvFile after the read: the bytes it writes
EncryptEnvData(data, keys, r) ==
    LET res == EncryptEnvLines(Split(data, 10), keys, r)
    IN  [ok |-> res.ok, val |-> Join(res.val, 10), r |-> res.r]

\* encryptRegularFile after the read
EncryptRegularData(data, keys, r) ==
    LET ct == AgeEncrypt(data, keys, r)
    IN  [ok |-> ct.ok, val |-> ct.val, r |-> r + 1]

\* decryptEnvFile's loop over the lines
RECURSIVE DecryptEnvLines(_, _)
DecryptEnvLines(lines, id) ==
    IF Len(lines) = 0 THEN Ok(<<>>)
    ELSE LET line    == lines[1]
             trimmed == TrimSpace(line)
             idx     == Index(line, 61)
             key     == SubSeq(line, 1, idx - 1)
             value   == SubSeq(line, idx + 1, Len(line))
             keep    == \/ trimmed = <<>>
                        \/ HasPrefix(trimmed, <<35>>)
                        \/ idx = 0
                        \/ ~(HasPrefix(value, EncAgeMark) /\ HasSuffix(value, <<93>>))
             rest    == DecryptEnvLines(Tail(lines), id)
         IN  IF keep
             THEN IF rest.ok THEN Ok(<<line>> \o rest.val) ELSE Err
             ELSE LET encData == TrimSuffix(TrimPrefix(value, EncAgeMark), <<93>>)
                      ct      == B64Decode(encData)
                      pt      == IF ct.ok THEN AgeDecrypt(ct.val, id) ELSE Err
                  IN  IF pt.ok /\ rest.ok
                      THEN Ok(<<key \o <<61>> \o pt.val>> \o rest.val)
                      ELSE Err

DecryptEnvData(data, id) ==
    LET res == DecryptEnvLines(Split(data, 10), id)
    IN  IF res.ok THEN Ok(Join(res.val, 10)) ELSE Err

DecryptRegularData(data, id) == AgeDecrypt(data, id)

----------------------------------------------------------------------------
(* Operations: common bookkeeping *)

\* the zero Config: no project
NoConfig == [version |-> 0, recipients |-> <<>>, secrets |-> <<>>]

NoRun == [op |-> "none", keys |-> <<>>, pat |-> 0, matches |-> <<>>, idx |-> 0,
          count |-> 0, path |-> <<>>, out |-> <<>>, buf |-> <<>>,
          pw |-> <<>>, algo |-> <<>>, mode |-> 0, kdf |-> 0, entries |-> <<>>,
          cfg0 |-> NoConfig, name |-> <<>>, key |-> 0]

\* no single-file command line
NoArgs == [plain |-> <<>>, sealed |-> <<>>, algo |-> <<>>, pw |-> <<>>, pw2 |-> <<>>]

\* the terminal interface is not running
NoApp == [state |-> "none"]

NoBrowser == [title |-> "none"]

\* an operation starts: the bookkeeping of the previous one is filed
Start ==
    /\ pc = "idle"
    /\ runs < MaxRuns
    /\ runs' = runs + 1
    /\ prev' = [ret |-> ret, fs0 |-> fs0, run |-> run]
    /\ fs0' = fs
    /\ touched' = {}
    /\ done' = <<>>

\* a mutation of Return: an error is returned with the count 0
ReturnZeroOnError(count, err) ==
    /\ pc' = "idle"
    /\ ret' = [op |-> run.op, count |-> IF err = "none" THEN count ELSE 0, err |-> err]

\* the running operation returns (count, err)
Return(count, err) ==
    /\ pc' = "idle"
    /\ ret' = [op |-> run.op, count |-> count, err |-> err]

----------------------------------------------------------------------------
(* project.EncryptAll, one action per step between two file-system calls *)

\* a mutation of NoRecipients: the test is missing
NoRecipientsNever(c) == FALSE

\* the fail-fast test at the entry of EncryptAll
NoRecipients(c) == Len(c.recipients) = 0

\* a mutation of AlreadyEncrypted: ciphertext files are not skipped
AlreadyEncryptedNever(match) == FALSE

\* the test of EncryptAll's inner loop that skips ciphertext files
AlreadyEncrypted(match) == HasSuffix(match, EncryptedExt)

\* entry: the recipient check and the collection of the recipient keys
EncryptAllBegin ==
    /\ Start
    /\ LET keys == [i \in 1..Len(cfg.recipients) |-> cfg.recipients[i].Key]
       IN  IF NoRecipients(cfg)
           THEN /\ run' = [NoRun EXCEPT !.op = "encryptAll"]
                /\ pc' = "idle"
                /\ ret' = [op |-> "encryptAll", count |-> 0, err |-> "norecipients"]
           ELSE /\ run' = [NoRun EXCEPT !.op = "encryptAll", !.keys = keys, !.pat = 1]
                /\ pc' = "ea_glob"
                /\ ret' = ret
    /\ UNCHANGED <<args, app, fileBrowser, macs, tampered, fs, dirW, cfg, identity, rnd>>

\* the outer loop: the next pattern is expanded, or the loop ends
EncryptAllGlob ==
    /\ pc = "ea_glob"
    /\ IF run.pat > Len(cfg.secrets)
       THEN /\ Return(run.count, "none")
            /\ run' = run
       ELSE /\ run' = [run EXCEPT !.matches = Glob(fs, cfg.secrets[run.pat]), !.idx = 1]
            /\ pc' = "ea_match"
            /\ ret' = ret
    /\ UNCHANGED <<args, app, fileBrowser, macs, tampered, fs, dirW, cfg, identity, rnd, fs0, prev,
                   touched, done, runs>>

\* the inner loop up to the write: skip, classify, read, encrypt
EncryptAllMatch ==
    /\ pc = "ea_match"
    /\ IF run.idx > Len(run.matches)
       THEN /\ run' = [run EXCEPT !.pat = run.pat + 1]
            /\ pc' = "ea_glob"
            /\ UNCHANGED <<ret, rnd, touched>>
       ELSE LET match == run.matches[run.idx]
                data  == ReadFile(fs, match)
                enc   == IF IsEnvName(Base(match))
                         THEN EncryptEnvData(data.val, run.keys, rnd)
                         ELSE EncryptRegularData(data.val, run.keys, rnd)
            IN  IF AlreadyEncrypted(match)
                THEN /\ run' = [run EXCEPT !.idx = run.idx + 1]
                     /\ UNCHANGED <<pc, ret, rnd, touched>>
                ELSE /\ touched' = touched \cup {match}
                     /\ IF ~data.ok
                        THEN /\ Return(run.count, "read")
                             /\ run' = [run EXCEPT !.path = match]
                             /\ rnd' = rnd
                        ELSE IF ~enc.ok
                        THEN /\ Return(run.count, "crypto")
                             /\ run' = [run EXCEPT !.path = match]
                             /\ rnd' = rnd
                        ELSE /\ run' = [run EXCEPT !.path = match,
                                                   !.out = match \o EncryptedExt,
                                                   !.buf = enc.val]
                             /\ rnd' = enc.r
                             /\ pc' = "ea_write"
                             /\ ret' = ret
    /\ UNCHANGED <<args, app, fileBrowser, macs, tampered, fs, dirW, cfg, identity, fs0, prev, done, runs>>

\* os.WriteFile(encPath, ..., 0644): the file is opened and truncated
EncryptAllOpen ==
    /\ pc = "ea_write"
    /\ touched' = touched \cup {run.out}
    /\ IF CanOpen(fs, dirW, run.out)
       THEN /\ fs' = OpenTrunc(fs, run.out, ModePublic)
            /\ pc' = "ea_write2"
            /\ ret' = ret
       ELSE /\ Return(run.count, "write")
            /\ fs' = fs
    /\ UNCHANGED <<args, app, fileBrowser, macs, tampered, dirW, cfg, identity, rnd, run, fs0, prev,
                   done, runs>>

\* os.WriteFile: the bytes are written, or the write fails (no space left)
EncryptAllWrite ==
    /\ pc = "ea_write2"
    /\ \/ /\ fs' = WriteData(fs, run.out, run.buf)
          /\ pc' = "ea_remove"
          /\ ret' = ret
       \/ /\ Return(run.count, "write")
          /\ fs' = fs
    /\ UNCHANGED <<args, app, fileBrowser, macs, tampered, dirW, cfg, identity, rnd, run, fs0, prev,
                   touched, done, runs>>

\* os.Remove(match), whose failure is only reported, and count++
EncryptAllRemove ==
    /\ pc = "ea_remove"
    /\ touched' = touched \cup {run.path}
    /\ fs' = IF CanRemove(fs, dirW, run.path) THEN Remove(fs, run.path) ELSE fs
    /\ run' = [run EXCEPT !.count = run.count + 1, !.idx = run.idx + 1]
    /\ done' = Append(done, run.path)
    /\ pc' = "ea_match"
    /\ UNCHANGED <<args, app, fileBrowser, macs, tampered, dirW, cfg, identity, rnd, ret, fs0, prev, runs>>

----------------------------------------------------------------------------
(* project.DecryptAll *)

\* entry: keygen.LoadAgeIdentity
DecryptAllBegin ==
    /\ Start
    /\ IF identity = 0
       THEN /\ run' = [NoRun EXCEPT !.op = "decryptAll"]
            /\ pc' = "idle"
            /\ ret' = [op |-> "decryptAll", count |-> 0, err |-> "noidentity"]
       ELSE /\ run' = [NoRun EXCEPT !.op = "decryptAll", !.pat = 1]
            /\ pc' = "da_glob"
            /\ ret' = ret
    /\ UNCHANGED <<args, app, fileBrowser, macs, tampered, fs, dirW, cfg, identity, rnd>>

\* a mutation of DecPath: the plaintext is written where the ciphertext is
DecPathInPlace(match) == match

\* the plaintext sibling of a ciphertext file
DecPath(match) == TrimSuffix(match, EncryptedExt)

DecryptAllGlob ==
    /\ pc = "da_glob"
    /\ IF run.pat > Len(cfg.secrets)
       THEN /\ Return(run.count, "none")
            /\ run' = run
       ELSE /\ run' = [run EXCEPT
                          !.matches = Glob(fs, cfg.secrets[run.pat] \o EncryptedExt),
                          !.idx = 1]
            /\ pc' = "da_match"
            /\ ret' = ret
    /\ UNCHANGED <<args, app, fileBrowser, macs, tampered, fs, dirW, cfg, identity, rnd, fs0, prev,
                   touched, done, runs>>

\* the inner loop up to the write: classify, read, decrypt
DecryptAllMatch ==
    /\ pc = "da_match"
    /\ IF run.idx > Len(run.matches)
       THEN /\ run' = [run EXCEPT !.pat = run.pat + 1]
            /\ pc' = "da_glob"
            /\ UNCHANGED <<ret, touched>>
       ELSE LET match   == run.matches[run.idx]
                decPath == DecPath(match)
                data    == ReadFile(fs, match)
                dec     == IF IsEnvName(Base(decPath))
                           THEN DecryptEnvData(data.val, identity)
                           ELSE DecryptRegularData(data.val, identity)
            IN  /\ touched' = touched \cup {match}
                /\ IF ~data.ok
                   THEN /\ Return(run.count, "read")
                        /\ run' = [run EXCEPT !.path = match]
                   ELSE IF ~dec.ok
                   THEN /\ Return(run.count, "crypto")
                        /\ run' = [run EXCEPT !.path = match]
                   ELSE /\ run' = [run EXCEPT !.path = match, !.out = decPath,
                                              !.buf = dec.val]
                        /\ pc' = "da_write"
                        /\ ret' = ret
    /\ UNCHANGED <<args, app, fileBrowser, macs, tampered, fs, dirW, cfg, identity, rnd, fs0, prev, done,
                   runs>>

\* os.WriteFile(decPath, ..., 0600): the file is opened and truncated
DecryptAllOpen ==
    /\ pc = "da_write"
    /\ touched' = touched \cup {run.out}
    /\ IF CanOpen(fs, dirW, run.out)
       THEN /\ fs' = OpenTrunc(fs, run.out, ModeSecret)
            /\ pc' = "da_write2"
            /\ ret' = ret
       ELSE /\ Return(run.count, "write")
            /\ fs' = fs
    /\ UNCHANGED <<args, app, fileBrowser, macs, tampered, dirW, cfg, identity, rnd, run, fs0, prev,
                   done, runs>>

\* os.WriteFile: the bytes are written, or the write fails; then count++
DecryptAllWrite ==
    /\ pc = "da_write2"
    /\ \/ /\ fs' = WriteData(fs, run.out, run.buf)
          /\ run' = [run EXCEPT !.count = run.count + 1, !.idx = run.idx + 1]
          /\ done' = Append(done, run.path)
          /\ pc' = "da_match"
          /\ ret' = ret
       \/ /\ Return(run.count, "write")
          /\ fs' = fs
          /\ UNCHANGED <<run, done>>
    /\ UNCHANGED <<args, app, fileBrowser, macs, tampered, dirW, cfg, identity, rnd, fs0, prev, touched,
                   runs>>

\* the process is killed between two steps
Interrupt ==
    /\ pc # "idle"
    /\ Return(run.count, "killed")
    /\ UNCHANGED <<args, app, fileBrowser, macs, tampered, fs, dirW, cfg, identity, rnd, run, fs0, prev,
                   touched, done, runs>>

----------------------------------------------------------------------------
(* tui and cli: the single-file commands up to their write *)

ExtEnc == <<46, 101, 110, 99>>                             \* ".enc"

ExtAge == <<46, 97, 103, 101>>                             \* ".age"

ExtDec == <<46, 100, 101, 99>>                             \* ".dec"

ModeCreate == 438      \* 0666, the mode of os.Create

\* a mutation of samePath: the paths are compared as they are spelled
samePathSpelled(a, b) == a = b

\* filepath.Abs of both paths in one working directory, compared
samePath(a, b) == Clean(a) = Clean(b)

deriveEncryptOutput(input) == IF input = <<>> THEN <<>> ELSE input \o ExtEnc

deriveDecryptOutput(input) ==
    IF input = <<>> THEN <<>>
    ELSE IF HasSuffix(input, ExtEnc) THEN TrimSuffix(input, ExtEnc)
    ELSE IF HasSuffix(input, EncryptedExt) THEN TrimSuffix(input, EncryptedExt)
    ELSE IF HasSuffix(input, ExtAge) THEN TrimSuffix(input, ExtAge)
    ELSE input \o ExtDec

\* getPassword: the flag when it is given, else what is typed at the prompt
getPassword(provided, typed) == IF provided # <<>> THEN provided ELSE typed

\* What a command has computed when it reaches its write, or the error it
\* stops with: err, buf (the bytes to write), r (the next unused draw),
\* tags (the tags issued), kdf (the number of key derivations made).
Result(err, buf, r, tags, kdf) ==
    [err |-> err, buf |-> buf, r |-> r, tags |-> tags, kdf |-> kdf, entries |-> <<>>]

\* the same for the env commands, with the entry list as the command leaves it
ResultEnv(err, buf, r, tags, kdf, entries) ==
    [err |-> err, buf |-> buf, r |-> r, tags |-> tags, kdf |-> kdf, entries |-> entries]

\* a mutation of Envelope: the algorithm byte is always 0
EnvelopeNoAlgo(salt, algo, ciphertext) == salt \o <<0>> \o ciphertext

\* the password envelope: salt, algorithm byte, ciphertext
Envelope(salt, algo, ciphertext) ==
    salt \o <<IF algo = AlgoChaCha20 THEN 1 ELSE 0>> \o ciphertext

\* tui encryptFile up to os.WriteFile
encryptFile(f, input, output, algo, password, r) ==
    LET dk == DeriveKey(password, r)
        pt == ReadFile(f, input)
        ct == Encrypt(algo, pt.val, dk.key, r + 1)
    IN  IF input = <<>> \/ output = <<>> \/ password = <<>>
        THEN Result("required", <<>>, r, <<>>, 0)
        ELSE IF samePath(input, output) THEN Result("samepath", <<>>, r, <<>>, 0)
        ELSE IF ~Exists(f, input) THEN Result("notfound", <<>>, r, <<>>, 0)
        ELSE IF ~dk.ok THEN Result("kdf", <<>>, r + 1, <<>>, 1)
        ELSE IF ~pt.ok THEN Result("read", <<>>, r + 1, <<>>, 1)
        ELSE IF ~NewEncryptor(algo) THEN Result("algo", <<>>, r + 1, <<>>, 1)
        ELSE IF ~ct.ok THEN Result("crypto", <<>>, r + 2, <<>>, 1)
        ELSE Result("none", Envelope(dk.salt, algo, ct.val), r + 2,
                    (r + 1) :> Issued(algo, pt.val, dk.key, r + 1), 1)

\* a mutation of handleEncrypt: input and output are not compared
handleEncryptAnyOutput(f, input, output, algo, pass, r) ==
    LET dk == DeriveKey(pass, r)
        pt == ReadFile(f, input)
        ct == Encrypt(algo, pt.val, dk.key, r + 1)
    IN  IF input = <<>> THEN Result("required", <<>>, r, <<>>, 0)
        ELSE IF output = <<>> THEN Result("required", <<>>, r, <<>>, 0)
        ELSE IF ~dk.ok THEN Result("kdf", <<>>, r + 1, <<>>, 1)
        ELSE IF ~pt.ok THEN Result("read", <<>>, r + 1, <<>>, 1)
        ELSE IF ~NewEncryptor(algo) THEN Result("algo", <<>>, r + 1, <<>>, 1)
        ELSE IF ~ct.ok THEN Result("crypto", <<>>, r + 2, <<>>, 1)
        ELSE Result("none", Envelope(dk.salt, algo, ct.val), r + 2,
                    (r + 1) :> Issued(algo, pt.val, dk.key, r + 1), 1)

\* cli handleEncrypt up to os.WriteFile; pass is the result of getPassword
handleEncrypt(f, input, output, algo, pass, r) ==
    LET dk == DeriveKey(pass, r)
        pt == ReadFile(f, input)
        ct == Encrypt(algo, pt.val, dk.key, r + 1)
    IN  IF input = <<>> THEN Result("required", <<>>, r, <<>>, 0)
        ELSE IF output = <<>> THEN Result("required", <<>>, r, <<>>, 0)
        ELSE IF samePath(input, output) THEN Result("samepath", <<>>, r, <<>>, 0)
        ELSE IF ~dk.ok THEN Result("kdf", <<>>, r + 1, <<>>, 1)
        ELSE IF ~pt.ok THEN Result("read", <<>>, r + 1, <<>>, 1)
        ELSE IF ~NewEncryptor(algo) THEN Result("algo", <<>>, r + 1, <<>>, 1)
        ELSE IF ~ct.ok THEN Result("crypto", <<>>, r + 2, <<>>, 1)
        ELSE Result("none", Envelope(dk.salt, algo, ct.val), r + 2,
                    (r + 1) :> Issued(algo, pt.val, dk.key, r + 1), 1)

\* the algorithm a decryption takes from the envelope's algorithm byte
AlgoOfByte(algoB) == IF algoB = 1 THEN AlgoChaCha20 ELSE AlgoAESGCM

\* the algorithm a password decryption has taken from its input once the
\* header is read: the local variable algo of decryptFile and handleDecrypt
EnvelopeAlgo(f, input) ==
    LET data == ReadFile(f, input)
    IN  IF data.ok /\ Len(data.val) >= SaltSize + 1
        THEN AlgoOfByte(data.val[SaltSize + 1])
        ELSE <<>>

\* a mutation of decryptFile: the error of Decrypt is not looked at
decryptFileUnchecked(f, input, output, password, r) ==
    LET data == ReadFile(f, input)
        salt == SubSeq(data.val, 1, SaltSize)
        algo == AlgoOfByte(data.val[SaltSize + 1])
        ct   == SubSeq(data.val, SaltSize + 2, Len(data.val))
        key  == DeriveKeyWithSalt(password, salt)
        pt   == Decrypt(algo, ct, key.val)
    IN  IF input = <<>> \/ output = <<>> \/ password = <<>>
        THEN Result("required", <<>>, r, <<>>, 0)
        ELSE IF ~Exists(f, input) THEN Result("notfound", <<>>, r, <<>>, 0)
        ELSE IF ~data.ok THEN Result("read", <<>>, r, <<>>, 0)
        ELSE IF Len(data.val) < SaltSize + 1 THEN Result("small", <<>>, r, <<>>, 0)
        ELSE IF ~key.ok THEN Result("kdf", <<>>, r, <<>>, 1)
        ELSE IF ~NewEncryptor(algo) THEN Result("algo", <<>>, r, <<>>, 1)
        ELSE Result("none", pt.val, r, <<>>, 1)

\* tui decryptFile up to os.WriteFile
decryptFile(f, input, output, password, r) ==
    LET data == ReadFile(f, input)
        salt == SubSeq(data.val, 1, SaltSize)
        algo == AlgoOfByte(data.val[SaltSize + 1])
        ct   == SubSeq(data.val, SaltSize + 2, Len(data.val))
        key  == DeriveKeyWithSalt(password, salt)
        pt   == Decrypt(algo, ct, key.val)
    IN  IF input = <<>> \/ output = <<>> \/ password = <<>>
        THEN Result("required", <<>>, r, <<>>, 0)
        ELSE IF ~Exists(f, input) THEN Result("notfound", <<>>, r, <<>>, 0)
        ELSE IF ~data.ok THEN Result("read", <<>>, r, <<>>, 0)
        ELSE IF Len(data.val) < SaltSize + 1 THEN Result("small", <<>>, r, <<>>, 0)
        ELSE IF ~key.ok THEN Result("kdf", <<>>, r, <<>>, 1)
        ELSE IF ~NewEncryptor(algo) THEN Result("algo", <<>>, r, <<>>, 1)
        ELSE IF ~pt.ok THEN Result("crypto", <<>>, r, <<>>, 1)
        ELSE Result("none", pt.val, r, <<>>, 1)

\* a mutation of handleDecrypt: the key is derived before the length of the
\* input is looked at
handleDecryptKeyFirst(f, input, output, pass, r) ==
    LET data == ReadFile(f, input)
        salt == SubSeq(data.val, 1, Min({SaltSize, Len(data.val)}))
        algo == AlgoOfByte(data.val[SaltSize + 1])
        ct   == SubSeq(data.val, SaltSize + 2, Len(data.val))
        key  == DeriveKeyWithSalt(pass, salt)
        pt   == Decrypt(algo, ct, key.val)
    IN  IF input = <<>> THEN Result("required", <<>>, r, <<>>, 0)
        ELSE IF output = <<>> THEN Result("required", <<>>, r, <<>>, 0)
        ELSE IF samePath(input, output) THEN Result("samepath", <<>>, r, <<>>, 0)
        ELSE IF ~data.ok THEN Result("read", <<>>, r, <<>>, 0)
        ELSE IF ~key.ok THEN Result("kdf", <<>>, r, <<>>, 1)
        ELSE IF Len(data.val) < SaltSize + 1 THEN Result("small", <<>>, r, <<>>, 1)
        ELSE IF ~NewEncryptor(algo) THEN Result("algo", <<>>, r, <<>>, 1)
        ELSE IF ~pt.ok THEN Result("crypto", <<>>, r, <<>>, 1)
        ELSE Result("none", pt.val, r, <<>>, 1)

\* cli handleDecrypt up to os.WriteFile
handleDecrypt(f, input, output, pass, r) ==
    LET data == ReadFile(f, input)
        salt == SubSeq(data.val, 1, SaltSize)
        algo == AlgoOfByte(data.val[SaltSize + 1])
        ct   == SubSeq(data.val, SaltSize + 2, Len(data.val))
        key  == DeriveKeyWithSalt(pass, salt)
        pt   == Decrypt(algo, ct, key.val)
    IN  IF input = <<>> THEN Result("required", <<>>, r, <<>>, 0)
        ELSE IF output = <<>> THEN Result("required", <<>>, r, <<>>, 0)
        ELSE IF samePath(input, output) THEN Result("samepath", <<>>, r, <<>>, 0)
        ELSE IF ~data.ok THEN Result("read", <<>>, r, <<>>, 0)
        ELSE IF Len(data.val) < SaltSize + 1 THEN Result("small", <<>>, r, <<>>, 0)
        ELSE IF ~key.ok THEN Result("kdf", <<>>, r, <<>>, 1)
        ELSE IF ~NewEncryptor(algo) THEN Result("algo", <<>>, r, <<>>, 1)
        ELSE IF ~pt.ok THEN Result("crypto", <<>>, r, <<>>, 1)
        ELSE Result("none", pt.val, r, <<>>, 1)

\* tui encryptWithAge up to os.WriteFile; recipient is what LoadAgeRecipient
\* returns, 0 when it fails
encryptWithAge(f, input, output, recipient, r) ==
    LET pt == ReadFile(f, input)
        ct == AgeEncrypt(pt.val, <<recipient>>, r)
    IN  IF input = <<>> \/ output = <<>> THEN Result("required", <<>>, r, <<>>, 0)
        ELSE IF samePath(input, output) THEN Result("samepath", <<>>, r, <<>>, 0)
        ELSE IF ~Exists(f, input) THEN Result("notfound", <<>>, r, <<>>, 0)
        ELSE IF recipient = 0 THEN Result("recipient", <<>>, r, <<>>, 0)
        ELSE IF ~pt.ok THEN Result("read", <<>>, r, <<>>, 0)
        ELSE IF ~ct.ok THEN Result("crypto", <<>>, r, <<>>, 0)
        ELSE Result("none", ct.val, r + 1, <<>>, 0)

\* tui envEncryptFile up to parser.WriteEnvFile
envEncryptFile(f, input, output, algo0, password, r) ==
    LET algo      == IF algo0 = <<>> THEN AlgoAESGCM ELSE algo0
        data      == ReadFile(f, input)
        entries   == ParseEnv(data.val)
        dk        == DeriveKey(password, r)
        enc       == EncryptEnvValues(entries, dk.key, algo, r + 1)
        saltEntry == CommentEntry(SaltMark \o B64Encode(dk.salt))
    IN  IF input = <<>> \/ output = <<>> \/ password = <<>>
        THEN Result("required", <<>>, r, <<>>, 0)
        ELSE IF samePath(input, output) THEN Result("samepath", <<>>, r, <<>>, 0)
        ELSE IF ~Exists(f, input) THEN Result("notfound", <<>>, r, <<>>, 0)
        ELSE IF ~data.ok THEN Result("read", <<>>, r, <<>>, 0)
        ELSE IF ~dk.ok THEN ResultEnv("kdf", <<>>, r + 1, <<>>, 1, entries)
        ELSE IF ~enc.ok THEN ResultEnv("crypto", <<>>, enc.r, <<>>, 1, enc.val)
        ELSE ResultEnv("none", EnvText(<<saltEntry>> \o enc.val), enc.r, enc.tags, 1,
                       <<saltEntry>> \o enc.val)

\* a mutation of DecryptEnvValues: an entry of an unknown algorithm is left as
\* it is
RECURSIVE DecryptEnvValuesLenient(_, _)
DecryptEnvValuesLenient(entries, key) ==
    IF Len(entries) = 0 THEN [err |-> "none", val |-> <<>>]
    ELSE LET e    == entries[1]
             ct   == B64Decode(e.Value)
             pt   == Decrypt(e.Algorithm, ct.val, key)
             rest == DecryptEnvValuesLenient(Tail(entries), key)
         IN  IF e.IsComment \/ ~e.Encrypted \/ ~NewEncryptor(e.Algorithm)
             THEN [rest EXCEPT !.val = <<e>> \o rest.val]
             ELSE IF ~ct.ok THEN [err |-> "base64", val |-> <<>>]
             ELSE IF ~pt.ok THEN [err |-> "crypto", val |-> <<>>]
             ELSE [rest EXCEPT !.val = <<[e EXCEPT !.Value = pt.val,
                                                   !.Encrypted = FALSE,
                                                   !.Algorithm = <<>>]>> \o rest.val]

\* DecryptEnvValues: [err, val: the entries]; the entries up to the failing one
\* are decrypted in place, which no caller looks at after an error
RECURSIVE DecryptEnvValues(_, _)
DecryptEnvValues(entries, key) ==
    IF Len(entries) = 0 THEN [err |-> "none", val |-> <<>>]
    ELSE LET e    == entries[1]
             ct   == B64Decode(e.Value)
             pt   == Decrypt(e.Algorithm, ct.val, key)
             rest == DecryptEnvValues(Tail(entries), key)
         IN  IF e.IsComment \/ ~e.Encrypted
             THEN [rest EXCEPT !.val = <<e>> \o rest.val]
             ELSE IF ~NewEncryptor(e.Algorithm) THEN [err |-> "algo", val |-> <<>>]
             ELSE IF ~ct.ok THEN [err |-> "base64", val |-> <<>>]
             ELSE IF ~pt.ok THEN [err |-> "crypto", val |-> <<>>]
             ELSE [rest EXCEPT !.val = <<[e EXCEPT !.Value = pt.val,
                                                   !.Encrypted = FALSE,
                                                   !.Algorithm = <<>>]>> \o rest.val]

\* the test of the decrypt loops for the line that carries the salt
IsSaltEntry(e) == e.IsComment /\ HasPrefix(e.Comment, SaltMark)

\* a mutation of ExtractSalt: a file without a marker gets a salt of zero bytes
ExtractSaltDefault(entries) ==
    LET marks == {i \in 1..Len(entries) : IsSaltEntry(entries[i])}
        dec(i) == B64Decode(TrimPrefix(entries[i].Comment, SaltMark))
    IN  IF \E i \in marks : ~dec(i).ok
        THEN [ok |-> FALSE, found |-> TRUE, salt |-> <<>>, clean |-> <<>>]
        ELSE [ok    |-> TRUE,
              found |-> TRUE,
              salt  |-> IF marks = {} THEN [i \in 1..SaltSize |-> 0]
                        ELSE dec(Max(marks)).val,
              clean |-> SelectSeq(entries, LAMBDA e : ~IsSaltEntry(e))]

\* the loop of envDecryptFile and handleEnvDecrypt over the parsed entries:
\* ok (no marker failed to decode), found (salt is not nil), salt (of the last
\* marker), clean (the entries without the markers)
ExtractSalt(entries) ==
    LET marks == {i \in 1..Len(entries) : IsSaltEntry(entries[i])}
        dec(i) == B64Decode(TrimPrefix(entries[i].Comment, SaltMark))
    IN  IF \E i \in marks : ~dec(i).ok
        THEN [ok |-> FALSE, found |-> TRUE, salt |-> <<>>, clean |-> <<>>]
        ELSE [ok    |-> TRUE,
              found |-> marks # {},
              salt  |-> IF marks = {} THEN <<>> ELSE dec(Max(marks)).val,
              clean |-> SelectSeq(entries, LAMBDA e : ~IsSaltEntry(e))]

\* tui envDecryptFile up to parser.WriteEnvFile
envDecryptFile(f, input, output, password, r) ==
    LET data    == ReadFile(f, input)
        entries == ParseEnv(data.val)
        ex      == ExtractSalt(entries)
        key     == DeriveKeyWithSalt(password, ex.salt)
        dec     == DecryptEnvValues(ex.clean, key.val)
    IN  IF input = <<>> \/ output = <<>> \/ password = <<>>
        THEN Result("required", <<>>, r, <<>>, 0)
        ELSE IF ~Exists(f, input) THEN Result("notfound", <<>>, r, <<>>, 0)
        ELSE IF ~data.ok THEN Result("read", <<>>, r, <<>>, 0)
        ELSE IF ~ex.ok THEN ResultEnv("salt", <<>>, r, <<>>, 0, entries)
        ELSE IF Len(ex.salt) = 0 THEN ResultEnv("nosalt", <<>>, r, <<>>, 0, entries)
        ELSE IF ~key.ok THEN ResultEnv("kdf", <<>>, r, <<>>, 1, entries)
        ELSE IF dec.err # "none" THEN ResultEnv(dec.err, <<>>, r, <<>>, 1, entries)
        ELSE ResultEnv("none", EnvText(dec.val), r, <<>>, 1, dec.val)

deriveEnvEncryptOutput(input) == IF input = <<>> THEN <<>> ELSE input \o EncryptedExt

\* cli handleEnv "encrypt" and handleEnvEncrypt up to parser.WriteEnvFile;
\* pass is the result of getPassword
handleEnvEncrypt(f, input, output, algo, pass, r) ==
    LET data      == ReadFile(f, input)
        entries   == ParseEnv(data.val)
        dk        == DeriveKey(pass, r)
        enc       == EncryptEnvValues(entries, dk.key, algo, r + 1)
        saltEntry == CommentEntry(SaltMark \o B64Encode(dk.salt))
    IN  IF input = <<>> THEN Result("required", <<>>, r, <<>>, 0)
        ELSE IF output = <<>> THEN Result("required", <<>>, r, <<>>, 0)
        ELSE IF samePath(input, output) THEN Result("samepath", <<>>, r, <<>>, 0)
        ELSE IF ~data.ok THEN Result("read", <<>>, r, <<>>, 0)
        ELSE IF ~dk.ok THEN ResultEnv("kdf", <<>>, r + 1, <<>>, 1, entries)
        ELSE IF ~enc.ok THEN ResultEnv("crypto", <<>>, enc.r, <<>>, 1, enc.val)
        ELSE ResultEnv("none", EnvText(<<saltEntry>> \o enc.val), enc.r, enc.tags, 1,
                       <<saltEntry>> \o enc.val)

\* cli handleEnv "decrypt" and handleEnvDecrypt up to parser.WriteEnvFile
handleEnvDecrypt(f, input, output, pass, r) ==
    LET data    == ReadFile(f, input)
        entries == ParseEnv(data.val)
        ex      == ExtractSalt(entries)
        key     == DeriveKeyWithSalt(pass, ex.salt)
        dec     == DecryptEnvValues(ex.clean, key.val)
    IN  IF input = <<>> THEN Result("required", <<>>, r, <<>>, 0)
        ELSE IF output = <<>> THEN Result("required", <<>>, r, <<>>, 0)
        ELSE IF samePath(input, output) THEN Result("samepath", <<>>, r, <<>>, 0)
        ELSE IF ~data.ok THEN Result("read", <<>>, r, <<>>, 0)
        ELSE IF ~ex.ok THEN ResultEnv("salt", <<>>, r, <<>>, 0, entries)
        ELSE IF ~ex.found THEN ResultEnv("nosalt", <<>>, r, <<>>, 0, entries)
        ELSE IF ~key.ok THEN ResultEnv("kdf", <<>>, r, <<>>, 1, entries)
        ELSE IF dec.err # "none" THEN ResultEnv(dec.err, <<>>, r, <<>>, 1, entries)
        ELSE ResultEnv("none", EnvText(dec.val), r, <<>>, 1, dec.val)

----------------------------------------------------------------------------
(* Projects the operations start from *)

PemName == <<107, 46, 112, 101, 109>>                      \* "k.pem"

\* "A=s\n#n\nD=t\n": two values, a comment, a trailing newline
EnvPlain == <<65, 61, 115, 10, 35, 110, 10, 68, 61, 116, 10>>

\* "A=ENC[age:QUJD]": a value already in the encrypted form
EnvMixed == <<65, 61>> \o EncAgeMark \o <<81, 85, 74, 68, 93>>

PemPlain == <<104, 105>>                                   \* "hi"

File(data, acc) == [data |-> data, mode |-> ModePublic, acc |-> acc]

\* a set of (path, file) pairs as a directory
Dir(entries) == [p \in {e[1] : e \in entries} |->
                    (CHOOSE e \in entries : e[1] = p)[2]]

\* "A=ENC[x": a value that starts like the encrypted form and is none
EnvOpen == <<65, 61>> \o EncMark \o <<120>>

EnvChoices == {{}, {<<EnvName, File(EnvPlain, TRUE)>>},
                   {<<EnvName, File(EnvMixed, TRUE)>>},
                   {<<EnvName, File(EnvOpen, TRUE)>>}}

PemChoices == {{}, {<<PemName, File(PemPlain, TRUE)>>},
                   {<<PemName, File(PemPlain, FALSE)>>}}

\* ciphertext left by an earlier encrypt-all for the recipient 1
EnvPodxChoices ==
    {{}, {<<EnvName \o EncryptedExt, File(EncryptEnvData(EnvPlain, <<1>>, 0).val, TRUE)>>}}

\* a .podx file that is no age file
PemPodxChoices == {{}, {<<PemName \o EncryptedExt, File(<<120>>, TRUE)>>}}

\* "Owner", the name Init gives to the local key, and another name
OwnerName == <<79, 119, 110, 101, 114>>

MateName == <<109>>

Recipient(name, key) == [Name |-> name, Key |-> key]

\* a loaded configuration with the recipient keys and the patterns
Config(keys, secrets) ==
    [version |-> 1,
     recipients |-> [i \in 1..Len(keys) |->
                        Recipient(IF i = 1 THEN OwnerName ELSE MateName, keys[i])],
     secrets |-> secrets]

RecipientLists == {<<>>, <<1>>, <<2, 1>>, <<1, 0>>}

SecretLists ==
    {<< EnvName, <<42, 46, 112, 101, 109>> >>,             \* .env, *.pem
     << EnvName \o <<42>>, <<42>> >>}                      \* .env*, *

InitProj ==
    /\ \E e \in EnvChoices, k \in PemChoices, ep \in EnvPodxChoices, kp \in PemPodxChoices :
          fs = Dir(e \cup k \cup ep \cup kp)
    /\ dirW \in BOOLEAN
    /\ \E r \in RecipientLists, s \in SecretLists : cfg = Config(r, s)
    /\ identity \in 0..NumIdentities
    /\ rnd = 1
    /\ pc = "idle"
    /\ run = NoRun
    /\ ret = [op |-> "none", count |-> 0, err |-> "none"]
    /\ fs0 = fs
    /\ prev = [ret |-> ret, fs0 |-> fs, run |-> NoRun]
    /\ touched = {}
    /\ done = <<>>
    /\ runs = 0
    /\ args = NoArgs
    /\ macs = <<>>
    /\ tampered = FALSE
    /\ app = NoApp
    /\ fileBrowser = NoBrowser

NextProj ==
    \/ EncryptAllBegin
    \/ EncryptAllGlob
    \/ EncryptAllMatch
    \/ EncryptAllOpen
    \/ EncryptAllWrite
    \/ EncryptAllRemove
    \/ DecryptAllBegin
    \/ DecryptAllGlob
    \/ DecryptAllMatch
    \/ DecryptAllOpen
    \/ DecryptAllWrite
    \/ Interrupt

SpecProj == InitProj /\ [][NextProj]_vars

----------------------------------------------------------------------------
(* tui and cli: the single-file commands, one action per file-system step *)

\* what can be typed at the password prompt of the cli
Typed == {<<>>, <<112>>}

\* the path the user gives to a decryption: where the encryption wrote
SealedPath == IF args.sealed = <<>> THEN deriveEncryptOutput(args.plain) ELSE args.sealed

IsEncryptOp(op) ==
    op \in {"encryptFile", "handleEncrypt", "envEncryptFile", "encryptWithAge",
            "handleEnvEncrypt"}

\* the commands that write their output with parser.WriteEnvFile
IsEnvOp(op) ==
    op \in {"envEncryptFile", "handleEnvEncrypt", "envDecryptFile", "handleEnvDecrypt"}

\* what the output holds when a write fails: nothing for the single write of
\* os.WriteFile, the lines already written for WriteEnvFile
WrittenBefore(op, buf) ==
    IF IsEnvOp(op)
    THEN {SubSeq(buf, 1, i) : i \in {0} \cup {j \in 1..(Len(buf) - 1) : buf[j] = 10}}
    ELSE {<<>>}

\* a command runs up to its write: res is what it has computed
FileOpBegin(op, input, output, password, algo, mode, res) ==
    /\ Start
    /\ run' = [NoRun EXCEPT !.op = op, !.path = input, !.out = output, !.pw = password,
                            !.algo = algo, !.mode = mode, !.buf = res.buf,
                            !.kdf = res.kdf, !.entries = res.entries]
    /\ rnd' = res.r
    /\ macs' = res.tags @@ macs
    /\ IF res.err = "none"
       THEN pc' = "sf_open" /\ ret' = ret
       ELSE pc' = "idle" /\ ret' = [op |-> op, count |-> 0, err |-> res.err]
    /\ UNCHANGED <<fs, dirW, cfg, identity, args, tampered>>

EncryptFileBegin ==
    /\ UNCHANGED <<app, fileBrowser>>
    /\ FileOpBegin("encryptFile", args.plain, args.sealed, args.pw, args.algo, ModeSecret,
                   encryptFile(fs, args.plain, args.sealed, args.algo, args.pw, rnd))

HandleEncryptBegin ==
    /\ UNCHANGED <<app, fileBrowser>>
    /\ \E typed \in Typed :
           LET pass   == getPassword(args.pw, typed)
               output == IF args.sealed = <<>> THEN deriveEncryptOutput(args.plain)
                         ELSE args.sealed
           IN  FileOpBegin("handleEncrypt", args.plain, output, pass, args.algo, ModeSecret,
                           handleEncrypt(fs, args.plain, output, args.algo, pass, rnd))

EnvEncryptFileBegin ==
    /\ UNCHANGED <<app, fileBrowser>>
    /\ FileOpBegin("envEncryptFile", args.plain, args.sealed, args.pw, args.algo, ModeCreate,
                   envEncryptFile(fs, args.plain, args.sealed, args.algo, args.pw, rnd))

EncryptWithAgeBegin ==
    /\ UNCHANGED <<app, fileBrowser>>
    /\ FileOpBegin("encryptWithAge", args.plain, args.sealed, <<>>, <<>>, ModeSecret,
                   encryptWithAge(fs, args.plain, args.sealed, identity, rnd))

DecryptFileBegin ==
    /\ UNCHANGED <<app, fileBrowser>>
    /\ FileOpBegin("decryptFile", SealedPath, args.plain, args.pw2,
                   EnvelopeAlgo(fs, SealedPath), ModeSecret,
                   decryptFile(fs, SealedPath, args.plain, args.pw2, rnd))

HandleDecryptBegin ==
    /\ UNCHANGED <<app, fileBrowser>>
    /\ \E typed \in Typed :
           LET pass   == getPassword(args.pw2, typed)
               output == deriveDecryptOutput(SealedPath)
           IN  FileOpBegin("handleDecrypt", SealedPath, output, pass,
                           EnvelopeAlgo(fs, SealedPath), ModeSecret,
                           handleDecrypt(fs, SealedPath, output, pass, rnd))

HandleEnvEncryptBegin ==
    /\ UNCHANGED <<app, fileBrowser>>
    /\ \E typed \in Typed :
           LET pass   == getPassword(args.pw, typed)
               output == IF args.sealed = <<>> THEN deriveEnvEncryptOutput(args.plain)
                         ELSE args.sealed
           IN  FileOpBegin("handleEnvEncrypt", args.plain, output, pass, args.algo, ModeCreate,
                           handleEnvEncrypt(fs, args.plain, output, args.algo, pass, rnd))

\* the files the user may give to an env decryption: the plain file itself and
\* the places an env encryption writes to
EnvInputs == {args.plain, SealedPath, deriveEnvEncryptOutput(args.plain)}

EnvDecryptFileBegin ==
    /\ UNCHANGED <<app, fileBrowser>>
    /\ \E input \in EnvInputs :
           LET output == deriveDecryptOutput(input)
           IN  FileOpBegin("envDecryptFile", input, output, args.pw2, <<>>, ModeCreate,
                           envDecryptFile(fs, input, output, args.pw2, rnd))

HandleEnvDecryptBegin ==
    /\ UNCHANGED <<app, fileBrowser>>
    /\ \E input \in EnvInputs, typed \in Typed :
           LET pass   == getPassword(args.pw2, typed)
               output == deriveDecryptOutput(input)
           IN  FileOpBegin("handleEnvDecrypt", input, output, pass, <<>>, ModeCreate,
                           handleEnvDecrypt(fs, input, output, pass, rnd))

\* os.WriteFile / os.Create: the output is opened and truncated
WriteOpen ==
    /\ pc = "sf_open"
    /\ IF CanOpen(fs, dirW, run.out)
       THEN /\ fs' = OpenTrunc(fs, run.out, run.mode)
            /\ pc' = "sf_write"
            /\ ret' = ret
       ELSE /\ Return(0, "write")
            /\ fs' = fs
    /\ UNCHANGED <<args, app, fileBrowser, macs, tampered, dirW, cfg, identity, rnd, run, fs0, prev, touched,
                   done, runs>>

\* the bytes are written, or the write fails and the command stops; an
\* encryption goes on to removeOriginal, a decryption returns
WriteBytes ==
    /\ pc = "sf_write"
    /\ \/ /\ fs' = WriteData(fs, run.out, run.buf)
          /\ IF IsEncryptOp(run.op)
             THEN pc' = "sf_remove" /\ ret' = ret
             ELSE Return(0, "none")
       \/ /\ Return(0, "write")
          /\ \E part \in WrittenBefore(run.op, run.buf) : fs' = WriteData(fs, run.out, part)
    /\ UNCHANGED <<args, app, fileBrowser, macs, tampered, dirW, cfg, identity, rnd, run, fs0, prev, touched,
                   done, runs>>

\* removeOriginal(input, output)
RemoveOriginal ==
    /\ pc = "sf_remove"
    /\ IF samePath(run.path, run.out)
       THEN Return(0, "samepath") /\ fs' = fs
       ELSE IF CanRemove(fs, dirW, run.path)
       THEN Return(0, "none") /\ fs' = Remove(fs, run.path)
       ELSE Return(0, "remove") /\ fs' = fs
    /\ UNCHANGED <<args, app, fileBrowser, macs, tampered, dirW, cfg, identity, rnd, run, fs0, prev, touched,
                   done, runs>>

\* one byte of the file a single-file encryption has just written is altered
\* behind the program, once; the byte at the place of the algorithm tag may
\* also become a value that is neither of the two a tag has
Tamper ==
    /\ pc = "idle"
    /\ ~tampered
    /\ runs < MaxRuns
    /\ IsEncryptOp(ret.op) /\ ret.err = "none"
    /\ \E i \in 1..Len(fs[Clean(run.out)].data) :
          \E d \in (IF i = SaltSize + 1 THEN {1, 2} ELSE {1}) :
              LET old == fs[Clean(run.out)].data
              IN  fs' = WriteData(fs, run.out, [old EXCEPT ![i] = old[i] + d])
    /\ tampered' = TRUE
    /\ UNCHANGED <<args, app, fileBrowser, macs, dirW, cfg, identity, rnd, pc, run, ret, fs0, prev, touched,
                   done, runs>>

----------------------------------------------------------------------------
(* Single files the commands start from *)

PlainName == <<102>>                                       \* "f"

PlainChoices ==
    {File(EnvPlain, TRUE), File(PemPlain, TRUE), File(PemPlain, FALSE), File(<<>>, TRUE)}

\* output paths: f.enc, none given, ./f (the input under another spelling)
SealedNames == {PlainName \o ExtEnc, <<>>, <<46, 47>> \o PlainName}

\* aes-gcm, chacha20, an unknown name, none
AlgoNames == {AlgoAESGCM, AlgoChaCha20, <<120>>, <<>>}

InitFile ==
    /\ \E c \in PlainChoices : fs = Dir({<<PlainName, c>>})
    /\ dirW \in BOOLEAN
    /\ cfg = Config(<<1>>, <<PlainName>>)
    /\ identity \in {0, 1}
    /\ rnd = 1
    /\ pc = "idle"
    /\ run = NoRun
    /\ ret = [op |-> "none", count |-> 0, err |-> "none"]
    /\ fs0 = fs
    /\ prev = [ret |-> ret, fs0 |-> fs, run |-> NoRun]
    /\ touched = {}
    /\ done = <<>>
    /\ runs = 0
    /\ \E s \in SealedNames, a \in AlgoNames, w \in {<<>>, <<112>>}, w2 \in {<<112>>, <<113>>} :
          args = [plain |-> PlainName, sealed |-> s, algo |-> a, pw |-> w, pw2 |-> w2]
    /\ macs = <<>>
    /\ tampered = FALSE
    /\ app = NoApp
    /\ fileBrowser = NoBrowser

NextFile ==
    \/ EncryptFileBegin
    \/ HandleEncryptBegin
    \/ EnvEncryptFileBegin
    \/ EncryptWithAgeBegin
    \/ DecryptFileBegin
    \/ HandleDecryptBegin
    \/ WriteOpen
    \/ WriteBytes
    \/ RemoveOriginal
    \/ Tamper
    \/ Interrupt

SpecFile == InitFile /\ [][NextFile]_vars

----------------------------------------------------------------------------
(* The password env commands of the tui and the cli *)

\* " A = x\r\n\n# c": blanks around the key, a CRLF line end, an empty line
\* and a last line without a newline
EnvLoose == <<32, 65, 32, 61, 32, 120, 13, 10, 10, 35, 32, 99>>

\* "A=ENC[x:QUJD]\nB=u\n": a value in the encrypted form with the algorithm x
EnvForeign == <<65, 61>> \o EncMark \o <<120, 58, 81, 85, 74, 68, 93, 10, 66, 61, 117, 10>>

\* "A=ENC[aes-gcm:!!]": a value in the encrypted form that is no base64
EnvBadCell == <<65, 61>> \o EncMark \o AlgoAESGCM \o <<58, 33, 33, 93>>

\* "# IRONVAULT_SALT=QUJD\nA=s\n": a file that already carries a salt line
EnvSalted == SaltMark \o <<81, 85, 74, 68, 10, 65, 61, 115, 10>>

EnvFileChoices ==
    {File(EnvPlain, TRUE), File(EnvPlain, FALSE), File(EnvLoose, TRUE),
     File(EnvForeign, TRUE), File(EnvBadCell, TRUE), File(EnvSalted, TRUE)}

InitEnv ==
    /\ \E c \in EnvFileChoices : fs = Dir({<<PlainName, c>>})
    /\ dirW \in BOOLEAN
    /\ cfg = Config(<<1>>, <<PlainName>>)
    /\ identity = 1
    /\ rnd = 1
    /\ pc = "idle"
    /\ run = NoRun
    /\ ret = [op |-> "none", count |-> 0, err |-> "none"]
    /\ fs0 = fs
    /\ prev = [ret |-> ret, fs0 |-> fs, run |-> NoRun]
    /\ touched = {}
    /\ done = <<>>
    /\ runs = 0
    /\ \E s \in SealedNames, a \in AlgoNames, w \in {<<>>, <<112>>}, w2 \in {<<112>>, <<113>>} :
          args = [plain |-> PlainName, sealed |-> s, algo |-> a, pw |-> w, pw2 |-> w2]
    /\ macs = <<>>
    /\ tampered = FALSE
    /\ app = NoApp
    /\ fileBrowser = NoBrowser

NextEnv ==
    \/ EnvEncryptFileBegin
    \/ HandleEnvEncryptBegin
    \/ EnvDecryptFileBegin
    \/ HandleEnvDecryptBegin
    \/ WriteOpen
    \/ WriteBytes
    \/ RemoveOriginal
    \/ Interrupt

SpecEnv == InitEnv /\ [][NextEnv]_vars

----------------------------------------------------------------------------
(* Every way podx decrypts an env file: the password env commands, and
   decrypt-all in a project *)

\* a project whose .env.podx is what encrypt-all wrote for the recipient 1 from
\* a .env with a value of the form ENC[x:...]
InitForeign ==
    /\ fs = Dir({<<EnvName \o EncryptedExt,
                   File(EncryptEnvData(EnvForeign, <<1>>, 0).val, TRUE)>>})
    /\ dirW \in BOOLEAN
    /\ cfg = Config(<<1>>, <<EnvName>>)
    /\ identity \in 0..NumIdentities
    /\ rnd = 1
    /\ pc = "idle"
    /\ run = NoRun
    /\ ret = [op |-> "none", count |-> 0, err |-> "none"]
    /\ fs0 = fs
    /\ prev = [ret |-> ret, fs0 |-> fs, run |-> NoRun]
    /\ touched = {}
    /\ done = <<>>
    /\ runs = 0
    /\ args = NoArgs
    /\ macs = <<>>
    /\ tampered = FALSE
    /\ app = NoApp
    /\ fileBrowser = NoBrowser

InitEnvDec == InitEnv \/ InitForeign

NextEnvDec ==
    \/ EnvEncryptFileBegin
    \/ HandleEnvEncryptBegin
    \/ EnvDecryptFileBegin
    \/ HandleEnvDecryptBegin
    \/ WriteOpen
    \/ WriteBytes
    \/ RemoveOriginal
    \/ DecryptAllBegin
    \/ DecryptAllGlob
    \/ DecryptAllMatch
    \/ DecryptAllOpen
    \/ DecryptAllWrite
    \/ Interrupt

SpecEnvDec == InitEnvDec /\ [][NextEnvDec]_vars

----------------------------------------------------------------------------
(* Every way podx encrypts, from a project or from a single file *)

\* the identity plays no part in an encryption of a project
InitEnc == (InitProj /\ identity = 1) \/ InitFile

NextEnc ==
    \/ EncryptAllBegin
    \/ EncryptAllGlob
    \/ EncryptAllMatch
    \/ EncryptAllOpen
    \/ EncryptAllWrite
    \/ EncryptAllRemove
    \/ EncryptFileBegin
    \/ HandleEncryptBegin
    \/ EnvEncryptFileBegin
    \/ EncryptWithAgeBegin
    \/ HandleEnvEncryptBegin
    \/ WriteOpen
    \/ WriteBytes
    \/ RemoveOriginal
    \/ Interrupt

SpecEnc == InitEnc /\ [][NextEnc]_vars

----------------------------------------------------------------------------
(* project: the configuration, its file and the ignore file *)

\* ".podx.yaml"
ConfigFileName == <<46, 112, 111, 100, 120, 46, 121, 97, 109, 108>>

\* ".gitignore"
GitignoreName == <<46, 103, 105, 116, 105, 103, 110, 111, 114, 101>>

\* "~/r" for ~/.config/podx/age-recipients/default.txt
DefaultRecipientFile == <<126, 47, 114>>

\* "*.pem"
PemPattern == <<42, 46, 112, 101, 109>>

\* A recipient key is named by an integer: 1..NumIdentities are the public
\* keys of the identities, 0 is a string that starts with "age1" and is no
\* key, -1 is the empty string and -2 a string that does not start with "age1".
\* In a file the key k is the octet 900 + k, the empty string is no octet.
KeyText(key) == IF key = -1 THEN <<>> ELSE <<900 + key>>

KeyOfText(t) ==
    IF t = <<>> THEN -1
    ELSE IF Len(t) = 1 /\ t[1] >= 900 /\ t[1] < 1000 THEN t[1] - 900
    ELSE -2

\* strings.HasPrefix(key, "age1")
HasAgePrefix(key) == key >= 0

\* keygen.LoadAgeRecipient: the trimmed content of the default recipient file
LoadAgeRecipient(f) ==
    LET data == ReadFile(f, DefaultRecipientFile)
    IN  IF ~data.ok THEN [ok |-> FALSE, val |-> -1]
        ELSE [ok |-> TRUE, val |-> KeyOfText(TrimSpace(data.val))]

\* the header Save puts in front of the YAML text
ConfigHeader == <<35, 32, 80, 79, 68, 88, 32, 80, 114, 111, 106, 101, 99, 116, 32, 67, 111, 110, 102, 105, 103, 117, 114, 97, 116, 105, 111, 110, 10, 35, 32, 104, 116, 116, 112, 115, 58, 47, 47, 103, 105, 116, 104, 117, 98, 46, 99, 111, 109, 47, 104, 97, 100, 101, 115, 47, 112, 111, 100, 120, 10, 10>>

RECURSIVE MarshalRecipients(_)
MarshalRecipients(rs) ==
    IF Len(rs) = 0 THEN <<>>
    ELSE <<45, 32>> \o rs[1].Name \o <<10, 32, 32>> \o KeyText(rs[1].Key) \o <<10>>
         \o MarshalRecipients(Tail(rs))

RECURSIVE MarshalSecrets(_)
MarshalSecrets(ss) ==
    IF Len(ss) = 0 THEN <<>>
    ELSE <<45, 32>> \o ss[1] \o <<10>> \o MarshalSecrets(Tail(ss))

\* yaml.Marshal(p.Config) behind the header: the version, the recipients
\* (name and key), the patterns
Marshal(c) ==
    ConfigHeader \o <<118, 58, 48 + c.version, 10, 114, 58, 10>>
    \o MarshalRecipients(c.recipients) \o <<115, 58, 10>> \o MarshalSecrets(c.secrets)

\* Project.Save: what os.WriteFile(configPath, content, 0644) can do to the
\* directory, with the error Save returns
Save(f, w, c) ==
    IF ~CanOpen(f, w, ConfigFileName) THEN {[err |-> "save", fs |-> f]}
    ELSE {[err |-> "none",
           fs |-> WriteData(OpenTrunc(f, ConfigFileName, ModePublic), ConfigFileName,
                            Marshal(c))],
          [err |-> "save", fs |-> OpenTrunc(f, ConfigFileName, ModePublic)]}

\* "# PODX - Decrypted secrets (DO NOT COMMIT)"
GitignoreHeader == <<35, 32, 80, 79, 68, 88, 32, 45, 32, 68, 101, 99, 114, 121, 112, 116, 101, 100, 32, 115, 101, 99, 114, 101, 116, 115, 32, 40, 68, 79, 32, 78, 79, 84, 32, 67, 79, 77, 77, 73, 84, 41>>

\* UpdateGitignore: the lines to add, and those of them that no existing line
\* equals after trimming
toAdd(c) == <<<<>>, GitignoreHeader>> \o c.secrets

newPatterns(f, c) ==
    LET data     == ReadFile(f, GitignoreName)
        existing == IF data.ok THEN Split(data.val, 10) ELSE <<>>
        found(p) == \E i \in 1..Len(existing) : TrimSpace(existing[i]) = TrimSpace(p)
    IN  SelectSeq(toAdd(c), LAMBDA p : ~found(p))

RECURSIVE Lines(_)
Lines(ps) == IF Len(ps) = 0 THEN <<>> ELSE ps[1] \o <<10>> \o Lines(Tail(ps))

\* Project.UpdateGitignore: what it can do to the directory, with the error it
\* returns; each WriteString may be the one that fails
UpdateGitignore(f, w, c) ==
    LET new    == newPatterns(f, c)
        there  == GitignoreName \in DOMAIN f
        old    == IF there THEN f[GitignoreName].data ELSE <<>>
        opened == Put(f, GitignoreName,
                      [data |-> old, mode |-> IF there THEN f[GitignoreName].mode
                                              ELSE ModePublic, acc |-> TRUE])
    IN  IF Len(new) = 0 THEN {[err |-> "none", fs |-> f]}
        ELSE IF ~CanOpen(f, w, GitignoreName) THEN {[err |-> "open", fs |-> f]}
        ELSE {[err |-> IF j = Len(new) THEN "none" ELSE "write",
               fs |-> WriteData(opened, GitignoreName, old \o Lines(SubSeq(new, 1, j)))] :
              j \in 0..Len(new)}

\* a call on the project starts: the directory and the configuration at entry
\* are kept in fs0 and run.cfg0
Call(op, name, key, pattern) ==
    /\ pc = "idle"
    /\ pc' = pc
    /\ fs0' = fs
    /\ run' = [NoRun EXCEPT !.op = op, !.cfg0 = cfg, !.name = name, !.key = key,
                            !.path = pattern]
    /\ UNCHANGED <<dirW, identity, rnd, prev, touched, done, runs, args, app, fileBrowser, macs, tampered>>

\* project.Init(dir)
ProjectInit ==
    /\ Call("Init", <<>>, 0, <<>>)
    /\ LET owner  == LoadAgeRecipient(fs)
           config == [version |-> 1,
                      recipients |-> IF owner.ok THEN <<Recipient(OwnerName, owner.val)>>
                                     ELSE <<>>,
                      secrets |-> <<EnvName>>]
       IN  IF Exists(fs, ConfigFileName)
           THEN /\ ret' = [op |-> "Init", count |-> 0, err |-> "exists"]
                /\ UNCHANGED <<fs, cfg>>
           ELSE \E s \in Save(fs, dirW, config) :
                   IF s.err # "none"
                   THEN /\ ret' = [op |-> "Init", count |-> 0, err |-> s.err]
                        /\ fs' = s.fs
                        /\ cfg' = cfg
                   ELSE \E g \in UpdateGitignore(s.fs, dirW, config) :
                           /\ ret' = [op |-> "Init", count |-> 0, err |-> "none"]
                           /\ fs' = g.fs
                           /\ cfg' = config

\* a mutation of AddRecipient: the test for a duplicate is missing
AddRecipientTwice(c, name, key) ==
    IF ~HasAgePrefix(key) THEN [err |-> "invalid", cfg |-> c]
    ELSE [err |-> "none",
          cfg |-> [c EXCEPT !.recipients = Append(@, Recipient(name, key))]]

\* Project.AddRecipient up to Save: the error, and the configuration in memory
AddRecipient(c, name, key) ==
    IF ~HasAgePrefix(key) THEN [err |-> "invalid", cfg |-> c]
    ELSE IF \E i \in 1..Len(c.recipients) : c.recipients[i].Key = key
    THEN [err |-> "duplicate", cfg |-> c]
    ELSE [err |-> "none",
          cfg |-> [c EXCEPT !.recipients = Append(@, Recipient(name, key))]]

\* a mutation of AddSecret: the pattern is put in front of the list
AddSecretInFront(c, pattern) ==
    IF \E i \in 1..Len(c.secrets) : c.secrets[i] = pattern
    THEN [err |-> "duplicate", cfg |-> c]
    ELSE [err |-> "none", cfg |-> [c EXCEPT !.secrets = <<pattern>> \o @]]

\* Project.AddSecret up to Save
AddSecret(c, pattern) ==
    IF \E i \in 1..Len(c.secrets) : c.secrets[i] = pattern
    THEN [err |-> "duplicate", cfg |-> c]
    ELSE [err |-> "none", cfg |-> [c EXCEPT !.secrets = Append(@, pattern)]]

\* the end of AddRecipient and AddSecret: return p.Save()
SaveAndReturn(op, res) ==
    IF res.err # "none"
    THEN /\ ret' = [op |-> op, count |-> 0, err |-> res.err]
         /\ cfg' = res.cfg
         /\ fs' = fs
    ELSE \E s \in Save(fs, dirW, res.cfg) :
            /\ ret' = [op |-> op, count |-> 0, err |-> s.err]
            /\ cfg' = res.cfg
            /\ fs' = s.fs

\* the names, keys and patterns the calls are made with
NameChoices == {OwnerName, MateName}

KeyChoices == {1, 2, 0, -2}

PatternChoices == {EnvName, PemPattern}

AddRecipientCall ==
    /\ cfg.version # 0
    /\ \E name \in NameChoices, key \in KeyChoices :
          /\ Call("AddRecipient", name, key, <<>>)
          /\ SaveAndReturn("AddRecipient", AddRecipient(cfg, name, key))

AddSecretCall ==
    /\ cfg.version # 0
    /\ \E pattern \in PatternChoices :
          /\ Call("AddSecret", <<>>, 0, pattern)
          /\ SaveAndReturn("AddSecret", AddSecret(cfg, pattern))

\* the directory before podx init: the default recipient file of the local
\* key 1, an empty one or none
RecipientFileChoices ==
    {{}, {<<DefaultRecipientFile, File(KeyText(1) \o <<10>>, TRUE)>>},
         {<<DefaultRecipientFile, File(<<>>, TRUE)>>}}

InitCfg ==
    /\ \E k \in RecipientFileChoices : fs = Dir(k)
    /\ dirW \in BOOLEAN
    /\ cfg = NoConfig
    /\ identity = 1
    /\ rnd = 1
    /\ pc = "idle"
    /\ run = NoRun
    /\ ret = [op |-> "none", count |-> 0, err |-> "none"]
    /\ fs0 = fs
    /\ prev = [ret |-> ret, fs0 |-> fs, run |-> NoRun]
    /\ touched = {}
    /\ done = <<>>
    /\ runs = 0
    /\ args = NoArgs
    /\ macs = <<>>
    /\ tampered = FALSE
    /\ app = NoApp
    /\ fileBrowser = NoBrowser

NextCfg ==
    \/ ProjectInit
    \/ AddRecipientCall
    \/ AddSecretCall

SpecCfg == InitCfg /\ [][NextCfg]_vars

----------------------------------------------------------------------------
(* keygen: the key file of the local age identities *)

\* "~/k" for ~/.config/podx/age-keys.txt
AgeKeysFile == <<126, 47, 107>>

\* "AGE-SECRET-KEY-"
SecretKeyMark == <<65, 71, 69, 45, 83, 69, 67, 82, 69, 84, 45, 75, 69, 89, 45>>

\* the private key of the identity id: the mark and the octet 800 + id
PrivateKey(id) == SecretKeyMark \o <<800 + id>>

\* what GenerateAge appends to the key file for the identity id; the octet 700
\* stands for the time stamp
KeyFileEntry(id) ==
    <<35, 32, 99, 114, 101, 97, 116, 101, 100, 58, 32>> \o <<700, 10>>
    \o <<35, 32, 112, 117, 98, 108, 105, 99, 32, 107, 101, 121, 58, 32>> \o KeyText(id) \o <<10>>
    \o PrivateKey(id) \o <<10>>

\* the lengths at which the WriteString of GenerateAge can stop: nothing, the
\* first line, the two comment lines, the mark of the key, the key without
\* its newline
StopsWithin(content) ==
    LET nl == {i \in 1..Len(content) : content[i] = 10}
    IN  {0, Len(content) - 1, Len(content) - 2} \cup (nl \ {Len(content)})

\* keygen.GenerateAge after crypto.GenerateAgeKey returned the identity id:
\* what it can do to the files, with the error it returns
GenerateAge(f, w, id) ==
    LET content == KeyFileEntry(id)
        there   == AgeKeysFile \in DOMAIN f
        old     == IF there THEN f[AgeKeysFile].data ELSE <<>>
        opened  == Put(f, AgeKeysFile,
                       [data |-> old, mode |-> IF there THEN f[AgeKeysFile].mode
                                               ELSE ModeSecret, acc |-> TRUE])
        written == WriteData(opened, AgeKeysFile, old \o content)
    IN  IF ~w /\ ~there /\ DefaultRecipientFile \notin DOMAIN f
        THEN {[err |-> "configdir", fs |-> f]}
        ELSE IF ~CanOpen(f, w, AgeKeysFile) THEN {[err |-> "open", fs |-> f]}
        ELSE {[err |-> "write",
               fs |-> WriteData(opened, AgeKeysFile, old \o SubSeq(content, 1, n))] :
              n \in StopsWithin(content)}
             \cup
             (IF ~CanOpen(written, w, DefaultRecipientFile)
              THEN {[err |-> "save", fs |-> written]}
              ELSE {[err |-> "save",
                     fs |-> OpenTrunc(written, DefaultRecipientFile, ModePublic)],
                    [err |-> "none",
                     fs |-> WriteData(OpenTrunc(written, DefaultRecipientFile, ModePublic),
                                      DefaultRecipientFile, KeyText(id) \o <<10>>)]})

\* a mutation of LoadAgeIdentity: the first key line is returned
LoadAgeIdentityFirst(f) ==
    LET data  == ReadFile(f, AgeKeysFile)
        lines == Split(data.val, 10)
        keys  == {i \in 1..Len(lines) : HasPrefix(TrimSpace(lines[i]), SecretKeyMark)}
    IN  IF ~data.ok \/ keys = {} THEN Err ELSE Ok(TrimSpace(lines[Min(keys)]))

\* keygen.LoadAgeIdentity: the last line of the key file that starts, trimmed,
\* with the mark
LoadAgeIdentity(f) ==
    LET data  == ReadFile(f, AgeKeysFile)
        lines == Split(data.val, 10)
        keys  == {i \in 1..Len(lines) : HasPrefix(TrimSpace(lines[i]), SecretKeyMark)}
    IN  IF ~data.ok \/ keys = {} THEN Err ELSE Ok(TrimSpace(lines[Max(keys)]))

\* the number of key pairs generated in a run of the model
MaxKeys == 3

\* a call of keygen.GenerateAge: crypto.GenerateAgeKey draws a fresh identity
\* or fails, then GenerateAge stores it
GenerateAgeRun ==
    /\ pc = "idle"
    /\ rnd <= MaxKeys
    /\ pc' = pc
    /\ prev' = [ret |-> ret, fs0 |-> fs0, run |-> run]
    /\ fs0' = fs
    /\ \/ /\ run' = [NoRun EXCEPT !.op = "GenerateAge"]
          /\ ret' = [op |-> "GenerateAge", count |-> 0, err |-> "keygen"]
          /\ UNCHANGED <<fs, rnd>>
       \/ /\ run' = [NoRun EXCEPT !.op = "GenerateAge", !.key = rnd]
          /\ rnd' = rnd + 1
          /\ \E g \in GenerateAge(fs, dirW, rnd) :
                /\ fs' = g.fs
                /\ ret' = [op |-> "GenerateAge", count |-> 0, err |-> g.err]
    /\ UNCHANGED <<cfg, dirW, identity, touched, done, runs, args, macs, tampered>>

\* podx keygen -t age
GenerateAgeCall ==
    /\ GenerateAgeRun
    /\ UNCHANGED <<app, fileBrowser>>

\* the key file before podx keygen: none, or the key of another tool in a last
\* line without a newline
KeyFileChoices == {{}, {<<AgeKeysFile, File(PrivateKey(0), TRUE)>>}}

InitKey ==
    /\ \E k \in KeyFileChoices : fs = Dir(k)
    /\ dirW \in BOOLEAN
    /\ cfg = NoConfig
    /\ identity = 0
    /\ rnd = 1
    /\ pc = "idle"
    /\ run = NoRun
    /\ ret = [op |-> "none", count |-> 0, err |-> "none"]
    /\ fs0 = fs
    /\ prev = [ret |-> ret, fs0 |-> fs, run |-> NoRun]
    /\ touched = {}
    /\ done = <<>>
    /\ runs = 0
    /\ args = NoArgs
    /\ macs = <<>>
    /\ tampered = FALSE
    /\ app = NoApp
    /\ fileBrowser = NoBrowser

NextKey == GenerateAgeCall

SpecKey == InitKey /\ [][NextKey]_vars

----------------------------------------------------------------------------
(* The ignore file of a project: podx init, add-secret, the updater run again,
   and encrypt-all *)

\* Project.UpdateGitignore called on its own; the operation before it is filed
UpdateGitignoreCall ==
    /\ Start
    /\ cfg.version # 0
    /\ pc' = pc
    /\ run' = [NoRun EXCEPT !.op = "UpdateGitignore", !.cfg0 = cfg]
    /\ \E g \in UpdateGitignore(fs, dirW, cfg) :
          /\ fs' = g.fs
          /\ ret' = [op |-> "UpdateGitignore", count |-> 0, err |-> g.err]
    /\ UNCHANGED <<cfg, dirW, identity, rnd, args, app, fileBrowser, macs, tampered>>

\* "x"
OtherLine == <<120>>

\* the ignore file before podx init: none, an empty one, one line, a blank
\* line and a last line without a newline, the pattern of Init between blanks
GitignoreChoices ==
    {{}, {<<GitignoreName, File(<<>>, TRUE)>>},
         {<<GitignoreName, File(OtherLine \o <<10>>, TRUE)>>},
         {<<GitignoreName, File(<<10>> \o OtherLine, TRUE)>>},
         {<<GitignoreName, File(<<32>> \o EnvName \o <<32, 10>>, TRUE)>>}}

InitIgnore ==
    /\ \E g \in GitignoreChoices :
          fs = Dir(g \cup {<<DefaultRecipientFile, File(KeyText(1) \o <<10>>, TRUE)>>,
                           <<EnvName, File(EnvPlain, TRUE)>>})
    /\ dirW \in BOOLEAN
    /\ cfg = NoConfig
    /\ identity = 1
    /\ rnd = 1
    /\ pc = "idle"
    /\ run = NoRun
    /\ ret = [op |-> "none", count |-> 0, err |-> "none"]
    /\ fs0 = fs
    /\ prev = [ret |-> ret, fs0 |-> fs, run |-> NoRun]
    /\ touched = {}
    /\ done = <<>>
    /\ runs = 0
    /\ args = NoArgs
    /\ macs = <<>>
    /\ tampered = FALSE
    /\ app = NoApp
    /\ fileBrowser = NoBrowser

NextIgnore ==
    \/ ProjectInit
    \/ AddSecretCall
    \/ UpdateGitignoreCall
    \/ EncryptAllBegin
    \/ EncryptAllGlob
    \/ EncryptAllMatch
    \/ EncryptAllOpen
    \/ EncryptAllWrite
    \/ EncryptAllRemove
    \/ Interrupt

SpecIgnore == InitIgnore /\ [][NextIgnore]_vars

----------------------------------------------------------------------------
(* tui: the file browser.  The directory tree is the file system of the
   model: a file /w/a is the entry "w/a" of fs, and a directory is there
   when a file lies below it. *)

\* strings.ToLower on ASCII
ToLower(s) == [i \in 1..Len(s) |-> IF s[i] \in 65..90 THEN s[i] + 32 ELSE s[i]]

\* strings.Contains
Contains(s, sub) ==
    \E i \in 0..(Len(s) - Len(sub)) : SubSeq(s, i + 1, i + Len(sub)) = sub

\* filepath.Ext of a name: from its last dot on
Ext(name) ==
    LET at == {i \in 1..Len(name) : name[i] = 46}
    IN  IF at = {} THEN <<>> ELSE SubSeq(name, Max(at), Len(name))

\* the elements of a path
Elements(p) == SelectSeq(Split(p, 47), LAMBDA x : x # <<>> /\ x # <<46>>)

\* filepath.Dir of an absolute path
DirOf(p) ==
    LET e == Elements(p)
    IN  IF Len(e) <= 1 THEN <<47>>
        ELSE <<47>> \o Join(SubSeq(e, 1, Len(e) - 1), 47)

\* filepath.Join(dir, name) of an absolute directory and a name
JoinPath(dir, name) == IF dir = <<47>> THEN dir \o name ELSE dir \o <<47>> \o name

\* "/w": the working directory of the terminal interface
WorkDir == <<47, 119>>

\* os.ReadDir(dir): the names directly below dir, each with IsDir
ReadDir(f, dir) ==
    LET d     == Elements(dir)
        below == {c \in {Elements(q) : q \in DOMAIN f} :
                     Len(c) > Len(d) /\ SubSeq(c, 1, Len(d)) = d}
    IN  [ok  |-> below # {} \/ d = <<>> \/ dir = WorkDir,
         val |-> {[Name |-> c[Len(d) + 1], IsDir |-> Len(c) > Len(d) + 1] : c \in below}]

\* FileBrowserModel.matchesExtensions
matchesExtensions(m, name) ==
    \/ Len(m.extensions) = 0
    \/ \E i \in 1..Len(m.extensions) :
          \/ ToLower(Ext(name)) = m.extensions[i]
          \/ Contains(ToLower(name), m.extensions[i])

\* FileBrowserModel.isExcluded
isExcluded(m, name) ==
    \E i \in 1..Len(m.excludeSufs) : HasSuffix(ToLower(name), ToLower(m.excludeSufs[i]))

\* FileBrowserModel.filterEntries
filterEntries(m) ==
    IF m.searchQuery = <<>> THEN [m EXCEPT !.filtered = m.entries]
    ELSE LET fl == SelectSeq(m.entries,
                             LAMBDA e : Contains(ToLower(e.Name), ToLower(m.searchQuery)))
         IN  [m EXCEPT !.filtered = fl,
                       !.cursor = IF m.cursor >= Len(fl) THEN 0 ELSE m.cursor]

\* sort.Slice by the lower-case name (no two names of a directory of the model
\* are equal in lower case)
RECURSIVE SortByName(_)
SortByName(S) ==
    IF S = {} THEN <<>>
    ELSE LET m == CHOOSE x \in S :
                     \A y \in S \ {x} : Less(ToLower(x.Name), ToLower(y.Name))
         IN  <<m>> \o SortByName(S \ {m})

\* FileBrowserModel.loadEntries
loadEntries(f, m) ==
    LET rd       == ReadDir(f, m.currentDir)
        parent   == IF m.currentDir # <<47>>
                    THEN <<[Name |-> <<46, 46>>, Path |-> DirOf(m.currentDir), IsDir |-> TRUE]>>
                    ELSE <<>>
        skip(e)  == /\ HasPrefix(e.Name, <<46>>) /\ ~m.showHidden
                    /\ (e.IsDir \/ Len(m.extensions) = 0 \/ ~matchesExtensions(m, e.Name))
        entry(e) == [Name |-> e.Name, Path |-> JoinPath(m.currentDir, e.Name),
                     IsDir |-> e.IsDir]
        dirs     == {entry(e) : e \in {x \in rd.val : ~skip(x) /\ x.IsDir}}
        files    == {entry(e) : e \in {x \in rd.val :
                                          /\ ~skip(x) /\ ~x.IsDir
                                          /\ ~isExcluded(m, x.Name)
                                          /\ matchesExtensions(m, x.Name)}}
    IN  IF ~rd.ok THEN m
        ELSE filterEntries([m EXCEPT !.entries = parent \o SortByName(dirs)
                                                 \o SortByName(files)])

\* the height of the list of the browser
BrowserHeight == 12

\* NewFileBrowser(title, extensions) in the working directory
NewFileBrowser(f, title, extensions) ==
    loadEntries(f, [title |-> title, entries |-> <<>>, filtered |-> <<>>, cursor |-> 0,
                    offset |-> 0, height |-> BrowserHeight, currentDir |-> WorkDir,
                    searchQuery |-> <<>>, selected |-> <<>>, extensions |-> extensions,
                    excludeSufs |-> <<>>, done |-> FALSE, cancelled |-> FALSE,
                    showHidden |-> FALSE, panic |-> FALSE])

\* FileBrowserModel.SetExcludeSuffixes
SetExcludeSuffixes(f, m, suffixes) == loadEntries(f, [m EXCEPT !.excludeSufs = suffixes])

\* a key message: a named key, or a typed character
NamedKey(name) == [name |-> name, ch |-> 0]

CharKey(c) == [name |-> "char", ch |-> c]

\* FileBrowserModel.Update for a key message; panic is set when the index
\* m.filtered[m.cursor] is out of range, which ends the program
BrowserUpdate(f, m, key) ==
    LET n == Len(m.filtered)
    IN  CASE key.name = "esc" -> [m EXCEPT !.cancelled = TRUE]
          [] key.name = "up" ->
                IF m.cursor > 0
                THEN [m EXCEPT !.cursor = m.cursor - 1,
                               !.offset = IF m.cursor - 1 < m.offset THEN m.cursor - 1
                                          ELSE m.offset]
                ELSE m
          [] key.name = "down" ->
                IF m.cursor < n - 1
                THEN [m EXCEPT !.cursor = m.cursor + 1,
                               !.offset = IF m.cursor + 1 >= m.offset + m.height
                                          THEN m.cursor + 1 - m.height + 1 ELSE m.offset]
                ELSE m
          [] key.name = "pgup" ->
                LET c == IF m.cursor - m.height < 0 THEN 0 ELSE m.cursor - m.height
                IN  [m EXCEPT !.cursor = c, !.offset = c]
          [] key.name = "pgdown" ->
                LET c == IF m.cursor + m.height >= n THEN n - 1 ELSE m.cursor + m.height
                IN  [m EXCEPT !.cursor = c,
                              !.offset = IF c >= m.offset + m.height THEN c - m.height + 1
                                         ELSE m.offset]
          [] key.name = "home" -> [m EXCEPT !.cursor = 0, !.offset = 0]
          [] key.name = "end" ->
                [m EXCEPT !.cursor = n - 1,
                          !.offset = IF n - 1 >= m.height THEN n - 1 - m.height + 1
                                     ELSE m.offset]
          [] key.name = "h" -> loadEntries(f, [m EXCEPT !.showHidden = ~m.showHidden])
          [] key.name = "enter" ->
                IF n = 0 THEN m
                ELSE IF m.cursor < 0 \/ m.cursor >= n THEN [m EXCEPT !.panic = TRUE]
                ELSE LET entry == m.filtered[m.cursor + 1]
                     IN  IF entry.IsDir
                         THEN loadEntries(f, [m EXCEPT !.currentDir = entry.Path,
                                                       !.cursor = 0, !.offset = 0,
                                                       !.searchQuery = <<>>])
                         ELSE [m EXCEPT !.selected = entry.Path, !.done = TRUE]
          [] key.name = "backspace" ->
                IF Len(m.searchQuery) > 0
                THEN filterEntries([m EXCEPT !.searchQuery =
                                                SubSeq(@, 1, Len(@) - 1)])
                ELSE m
          [] key.name = "char" ->
                filterEntries([m EXCEPT !.searchQuery = @ \o <<key.ch>>])

\* FileBrowserModel.View panics: the slice m.filtered[m.offset:] is out of range
ViewPanics(m) == Len(m.filtered) # 0 /\ (m.offset < 0 \/ m.offset > Len(m.filtered))

\* the longest search query typed in a run of the model
MaxQuery == 2

\* the keys the browser is given; the characters h, j and k are named keys of
\* the browser, every other single character goes to the search query
BrowserKeys ==
    {NamedKey(k) : k \in {"esc", "up", "down", "pgup", "pgdown", "home", "end", "h",
                          "enter", "backspace"}}
    \cup {CharKey(c) : c \in {97, 120}}

\* a key message reaches the browser: Update, then View renders the list
BrowserStep(key) ==
    /\ fileBrowser # NoBrowser
    /\ ~fileBrowser.done /\ ~fileBrowser.cancelled /\ ~fileBrowser.panic
    /\ key.name = "char" => Len(fileBrowser.searchQuery) < MaxQuery
    /\ LET m == BrowserUpdate(fs, fileBrowser, key)
       IN  fileBrowser' = [m EXCEPT !.panic = m.panic \/ ViewPanics(m)]

FileBrowserKey ==
    /\ app = NoApp
    /\ \E key \in BrowserKeys : BrowserStep(key)
    /\ UNCHANGED <<fs, dirW, cfg, identity, rnd, pc, run, ret, fs0, prev, touched, done,
                   runs, args, macs, tampered, app>>

\* the suffixes of the files podx writes: ".enc", ".podx", ".age"
SealedSuffixes == <<ExtEnc, EncryptedExt, ExtAge>>

\* a file of the working directory
InWorkDir(name) == <<119, 47>> \o name

\* the tree the browser is opened in: /w with the directory d, the hidden
\* files .env and .h, n.enc and thirteen files a, B, c, ..., m
BrowserTree ==
    Dir({<<InWorkDir(<<c>>), File(<<>>, TRUE)>> : c \in (97..109 \ {98}) \cup {66}}
        \cup {<<InWorkDir(<<100, 47, 120>>), File(<<>>, TRUE)>>,
              <<InWorkDir(EnvName), File(<<>>, TRUE)>>,
              <<InWorkDir(<<46, 104>>), File(<<>>, TRUE)>>,
              <<InWorkDir(<<110>> \o ExtEnc), File(<<>>, TRUE)>>})

\* the browsers the terminal interface opens: for a file to encrypt, a file to
\* decrypt, an env file to encrypt
InitBrowser ==
    /\ fs = BrowserTree
    /\ fileBrowser \in
          {SetExcludeSuffixes(fs, NewFileBrowser(fs, "encrypt", <<>>), SealedSuffixes),
           NewFileBrowser(fs, "decrypt", SealedSuffixes),
           SetExcludeSuffixes(fs, NewFileBrowser(fs, "env", <<EnvName>>), SealedSuffixes)}
    /\ app = NoApp
    /\ dirW = TRUE
    /\ cfg = NoConfig
    /\ identity = 0
    /\ rnd = 1
    /\ pc = "idle"
    /\ run = NoRun
    /\ ret = [op |-> "none", count |-> 0, err |-> "none"]
    /\ fs0 = fs
    /\ prev = [ret |-> ret, fs0 |-> fs, run |-> NoRun]
    /\ touched = {}
    /\ done = <<>>
    /\ runs = 0
    /\ args = NoArgs
    /\ macs = <<>>
    /\ tampered = FALSE

NextBrowser == FileBrowserKey

SpecBrowser == InitBrowser /\ [][NextBrowser]_vars

----------------------------------------------------------------------------
(* tui: the application *)

\* tui.NewPasswordForm
NewPasswordForm(inputFile, outputFile, algo, isEncrypt) ==
    [input |-> <<>>, inputFile |-> inputFile, outputFile |-> outputFile, algo |-> algo,
     done |-> FALSE, cancelled |-> FALSE, isEncrypt |-> isEncrypt]

\* the zero PasswordFormModel
NoPasswordForm == NewPasswordForm(<<>>, <<>>, <<>>, FALSE)

\* tui.NewFormModel for the initial values of the fields
NewFormModel(values) ==
    [values |-> values, focusIndex |-> 0, submitted |-> FALSE, cancelled |-> FALSE]

\* the zero FormModel
NoForm == NewFormModel(<<>>)

\* no function called by the handlers yet
NoCall == [fn |-> "none", args |-> <<>>]

\* tui.NewApp. Beside the fields of App: from is the state whose handler ran
\* last, flow the item of the main menu chosen last, flows the number of items
\* chosen there, call the function the last handler called, crashed says that
\* a handler panicked
NewApp ==
    [state |-> "StateMenu", inputFile |-> <<>>, outputFile |-> <<>>,
     isEncrypting |-> FALSE, useAgeKey |-> FALSE, selectedAlgo |-> <<>>,
     isEnvMode |-> FALSE, passwordForm |-> NoPasswordForm, form |-> NoForm,
     from |-> "none", flow |-> "none", flows |-> 0, call |-> NoCall, crashed |-> FALSE]

\* the number of times an item of the main menu is chosen in a run of the model
MaxFlows == 2

\* the items of tui.NewMenuModel
MenuItems ==
    {"encrypt", "decrypt", "env-encrypt", "env-decrypt", "keygen", "project", "update",
     "exit"}

\* a handler of the application that calls no file command
NoFileOp ==
    UNCHANGED <<fs, dirW, cfg, identity, rnd, pc, run, ret, fs0, prev, touched, done,
                runs, args, macs, tampered>>

\* App.Update dispatches on a.state; the handlers run one after the other
InState(S) == app # NoApp /\ ~app.crashed /\ pc = "idle" /\ app.state \in S

\* App.updateMenu with the item Enter selects; the items "age-encrypt" and
\* "age-decrypt" of the switch are in no menu
updateMenu(item) ==
    /\ InState({"StateMenu"})
    /\ app.flows < MaxFlows
    /\ LET a == [app EXCEPT !.from = "StateMenu", !.flow = item, !.flows = @ + 1,
                            !.call = NoCall]
       IN  CASE item = "encrypt" ->
                   /\ app' = [a EXCEPT !.state = "StateAlgoSelect", !.isEncrypting = TRUE]
                   /\ UNCHANGED fileBrowser
             [] item = "decrypt" ->
                   /\ app' = [a EXCEPT !.state = "StateFileBrowser",
                                       !.isEncrypting = FALSE, !.useAgeKey = FALSE]
                   /\ fileBrowser' = NewFileBrowser(fs, "decrypt", <<ExtEnc, EncryptedExt, ExtAge>>)
             [] item = "env-encrypt" ->
                   /\ app' = [a EXCEPT !.state = "StateEnvAlgoSelect", !.isEnvMode = TRUE,
                                       !.isEncrypting = TRUE, !.useAgeKey = FALSE]
                   /\ UNCHANGED fileBrowser
             [] item = "env-decrypt" ->
                   /\ app' = [a EXCEPT !.state = "StateEnvDecryptBrowser",
                                       !.isEnvMode = TRUE, !.isEncrypting = FALSE,
                                       !.useAgeKey = FALSE]
                   /\ fileBrowser' = NewFileBrowser(fs, "env-decrypt", <<EncryptedExt, ExtEnc>>)
             [] item = "keygen" ->
                   /\ app' = [a EXCEPT !.state = "StateKeygenSelect"]
                   /\ UNCHANGED fileBrowser
             [] item = "project" ->
                   /\ app' = [a EXCEPT !.state = "StateProjectMenu"]
                   /\ UNCHANGED fileBrowser
             [] item = "update" ->
                   /\ app' = [a EXCEPT !.state = "StateResult",
                                       !.call = [fn |-> "CheckUpdate", args |-> <<>>]]
                   /\ UNCHANGED fileBrowser
             [] item = "exit" ->
                   /\ app' = [a EXCEPT !.state = "quit"]
                   /\ UNCHANGED fileBrowser
    /\ NoFileOp

UpdateMenu == \E item \in MenuItems : updateMenu(item)

\* the algorithm an item of the algorithm menus names
AlgoNamed(item) == IF item = "aes-gcm" THEN AlgoAESGCM ELSE AlgoChaCha20

\* App.updateAlgoSelect with the item Enter selects
updateAlgoSelect(item) ==
    /\ InState({"StateAlgoSelect"})
    /\ LET a == [app EXCEPT !.from = "StateAlgoSelect"]
           b == SetExcludeSuffixes(fs, NewFileBrowser(fs, "encrypt", <<>>), SealedSuffixes)
       IN  CASE item = "back" ->
                   /\ app' = [a EXCEPT !.state = "StateMenu"]
                   /\ UNCHANGED fileBrowser
             [] item \in {"aes-gcm", "chacha20"} ->
                   /\ app' = [a EXCEPT !.selectedAlgo = AlgoNamed(item), !.useAgeKey = FALSE,
                                       !.state = "StateFileBrowser"]
                   /\ fileBrowser' = b
             [] item = "age" ->
                   /\ app' = [a EXCEPT !.useAgeKey = TRUE, !.state = "StateFileBrowser"]
                   /\ fileBrowser' = b
    /\ NoFileOp

UpdateAlgoSelect == \E item \in {"back", "aes-gcm", "chacha20", "age"} : updateAlgoSelect(item)

\* App.updateEnvAlgoSelect with the item Enter selects
updateEnvAlgoSelect(item) ==
    /\ InState({"StateEnvAlgoSelect"})
    /\ LET a == [app EXCEPT !.from = "StateEnvAlgoSelect"]
       IN  CASE item = "back" ->
                   /\ app' = [a EXCEPT !.state = "StateMenu", !.isEnvMode = FALSE]
                   /\ UNCHANGED fileBrowser
             [] item \in {"aes-gcm", "chacha20"} ->
                   /\ app' = [a EXCEPT !.selectedAlgo = AlgoNamed(item), !.useAgeKey = FALSE,
                                       !.state = "StateEnvFileBrowser"]
                   /\ fileBrowser' = SetExcludeSuffixes(fs, NewFileBrowser(fs, "env", <<EnvName>>),
                                                        SealedSuffixes)
    /\ NoFileOp

UpdateEnvAlgoSelect == \E item \in {"back", "aes-gcm", "chacha20"} : updateEnvAlgoSelect(item)

\* tui decryptWithAge up to os.WriteFile; id is what LoadAgeIdentity returns, 0
\* when it fails
decryptWithAge(f, input, output, id, r) ==
    LET ct == ReadFile(f, input)
        pt == AgeDecrypt(ct.val, id)
    IN  IF input = <<>> \/ output = <<>> THEN Result("required", <<>>, r, <<>>, 0)
        ELSE IF ~Exists(f, input) THEN Result("notfound", <<>>, r, <<>>, 0)
        ELSE IF id = 0 THEN Result("identity", <<>>, r, <<>>, 0)
        ELSE IF ~ct.ok THEN Result("read", <<>>, r, <<>>, 0)
        ELSE IF ~pt.ok THEN Result("crypto", <<>>, r, <<>>, 0)
        ELSE Result("none", pt.val, r, <<>>, 0)

\* the output updateFileBrowser derives for a file to decrypt: the input
\* without the suffixes, tried in this order, or the input with ".dec"
TrimmedOutput(input, suffixes) ==
    LET RECURSIVE Trim(_, _)
        Trim(s, i) == IF i > Len(suffixes) THEN s ELSE Trim(TrimSuffix(s, suffixes[i]), i + 1)
        out == Trim(input, 1)
    IN  IF out = input THEN input \o ExtDec ELSE out

\* the function updateFileBrowser or a form handler calls, with its arguments
Called(fn, arguments) == [fn |-> fn, args |-> arguments]

\* App.updateFileBrowser for a key message
updateFileBrowser(key) ==
    /\ InState({"StateFileBrowser", "StateEnvFileBrowser", "StateEnvDecryptBrowser"})
    /\ BrowserStep(key)
    /\ LET m     == fileBrowser'
           a     == [app EXCEPT !.from = app.state]
           input == m.selected
       IN  IF m.panic THEN app' = [a EXCEPT !.crashed = TRUE] /\ NoFileOp
           ELSE IF m.cancelled
           THEN app' = [a EXCEPT !.state = "StateMenu", !.useAgeKey = FALSE] /\ NoFileOp
           ELSE IF ~m.done THEN app' = a /\ NoFileOp
           ELSE IF a.isEnvMode
           THEN /\ NoFileOp
                /\ IF a.isEncrypting
                   THEN LET output == input \o EncryptedExt
                        IN  app' = [a EXCEPT !.inputFile = input, !.outputFile = output,
                                             !.state = "StateEnvPassword",
                                             !.passwordForm =
                                                NewPasswordForm(input, output, a.selectedAlgo, TRUE)]
                   ELSE LET output == TrimmedOutput(input, <<EncryptedExt, ExtEnc>>)
                        IN  app' = [a EXCEPT !.inputFile = input, !.outputFile = output,
                                             !.state = "StateEnvDecryptPassword",
                                             !.passwordForm =
                                                NewPasswordForm(input, output, <<>>, FALSE)]
           ELSE IF a.useAgeKey /\ a.isEncrypting
           THEN LET output == input \o ExtAge
                IN  /\ app' = [a EXCEPT !.inputFile = input, !.outputFile = output,
                                        !.state = "StateResult", !.useAgeKey = FALSE,
                                        !.call = Called("encryptWithAge", <<input, output>>)]
                    /\ FileOpBegin("encryptWithAge", input, output, <<>>, <<>>, ModeSecret,
                                   encryptWithAge(fs, input, output, identity, rnd))
           ELSE IF a.useAgeKey \/ (~a.isEncrypting /\ HasSuffix(input, ExtAge))
           THEN LET output == TrimmedOutput(input, <<ExtAge>>)
                IN  /\ app' = [a EXCEPT !.inputFile = input, !.outputFile = output,
                                        !.state = "StateResult", !.useAgeKey = FALSE,
                                        !.call = Called("decryptWithAge", <<input, output>>)]
                    /\ FileOpBegin("decryptWithAge", input, output, <<>>, <<>>, ModeSecret,
                                   decryptWithAge(fs, input, output, identity, rnd))
           ELSE /\ NoFileOp
                /\ IF a.isEncrypting
                   THEN LET output == input \o ExtEnc
                        IN  app' = [a EXCEPT !.inputFile = input, !.outputFile = output,
                                             !.state = "StateEncryptPassword",
                                             !.passwordForm =
                                                NewPasswordForm(input, output, a.selectedAlgo, TRUE)]
                   ELSE LET output == TrimmedOutput(input, <<ExtEnc, EncryptedExt>>)
                        IN  app' = [a EXCEPT !.inputFile = input, !.outputFile = output,
                                             !.state = "StateDecryptPassword",
                                             !.passwordForm =
                                                NewPasswordForm(input, output, <<>>, FALSE)]

\* the keys the browser of the application is given
TuiBrowserKeys == {NamedKey(k) : k \in {"esc", "up", "down", "h", "enter"}}

UpdateFileBrowser == \E key \in TuiBrowserKeys : updateFileBrowser(key)

\* the longest password typed into the password form in a run of the model
MaxPassword == 1

\* the keys the password form is given
PasswordKeys == {NamedKey("esc"), NamedKey("enter"), CharKey(112)}

\* PasswordFormModel.Update for a key message
PasswordFormUpdate(m, key) ==
    CASE key.name = "esc" -> [m EXCEPT !.cancelled = TRUE]
      [] key.name = "enter" -> [m EXCEPT !.done = m.input # <<>>]
      [] OTHER -> [m EXCEPT !.input = Append(m.input, key.ch)]

\* App.updatePasswordForm for a key message: the handler of StateEncryptPassword
\* (isEncrypt) and of StateDecryptPassword
updatePasswordForm(key, isEncrypt) ==
    /\ InState({IF isEncrypt THEN "StateEncryptPassword" ELSE "StateDecryptPassword"})
    /\ key.name = "char" => Len(app.passwordForm.input) < MaxPassword
    /\ UNCHANGED fileBrowser
    /\ LET m        == PasswordFormUpdate(app.passwordForm, key)
           a        == [app EXCEPT !.from = app.state, !.passwordForm = m]
           password == m.input
           algo     == IF m.algo = <<>> THEN AlgoAESGCM ELSE m.algo
       IN  IF m.cancelled THEN app' = [a EXCEPT !.state = "StateMenu"] /\ NoFileOp
           ELSE IF ~m.done THEN app' = a /\ NoFileOp
           ELSE IF isEncrypt
           THEN /\ app' = [a EXCEPT !.state = "StateResult",
                                    !.call = Called("encryptFile",
                                                    <<a.inputFile, a.outputFile, algo, password>>)]
                /\ FileOpBegin("encryptFile", a.inputFile, a.outputFile, password, algo,
                               ModeSecret,
                               encryptFile(fs, a.inputFile, a.outputFile, algo, password, rnd))
           ELSE /\ app' = [a EXCEPT !.state = "StateResult",
                                    !.call = Called("decryptFile",
                                                    <<a.inputFile, a.outputFile, password>>)]
                /\ FileOpBegin("decryptFile", a.inputFile, a.outputFile, password,
                               EnvelopeAlgo(fs, a.inputFile), ModeSecret,
                               decryptFile(fs, a.inputFile, a.outputFile, password, rnd))

UpdatePasswordForm == \E key \in PasswordKeys, isEncrypt \in BOOLEAN : updatePasswordForm(key, isEncrypt)

\* App.updateEnvPasswordForm for a key message: the handler of StateEnvPassword
\* (isEncrypt) and of StateEnvDecryptPassword
updateEnvPasswordForm(key, isEncrypt) ==
    /\ InState({IF isEncrypt THEN "StateEnvPassword" ELSE "StateEnvDecryptPassword"})
    /\ key.name = "char" => Len(app.passwordForm.input) < MaxPassword
    /\ UNCHANGED fileBrowser
    /\ LET m        == PasswordFormUpdate(app.passwordForm, key)
           a        == [app EXCEPT !.from = app.state, !.passwordForm = m]
           password == m.input
       IN  IF m.cancelled
           THEN app' = [a EXCEPT !.state = "StateMenu", !.isEnvMode = FALSE] /\ NoFileOp
           ELSE IF ~m.done THEN app' = a /\ NoFileOp
           ELSE IF isEncrypt
           THEN /\ app' = [a EXCEPT !.state = "StateResult", !.isEnvMode = FALSE,
                                    !.call = Called("envEncryptFile",
                                                    <<a.inputFile, a.outputFile,
                                                      a.selectedAlgo, password>>)]
                /\ FileOpBegin("envEncryptFile", a.inputFile, a.outputFile, password,
                               a.selectedAlgo, ModeCreate,
                               envEncryptFile(fs, a.inputFile, a.outputFile, a.selectedAlgo,
                                              password, rnd))
           ELSE /\ app' = [a EXCEPT !.state = "StateResult", !.isEnvMode = FALSE,
                                    !.call = Called("envDecryptFile",
                                                    <<a.inputFile, a.outputFile, password>>)]
                /\ FileOpBegin("envDecryptFile", a.inputFile, a.outputFile, password, <<>>,
                               ModeCreate,
                               envDecryptFile(fs, a.inputFile, a.outputFile, password, rnd))

UpdateEnvPasswordForm ==
    \E key \in PasswordKeys, isEncrypt \in BOOLEAN : updateEnvPasswordForm(key, isEncrypt)

\* the longest value of a form field in a run of the model
MaxField == 3

\* a key message of the form: a named key, or the characters typed or pasted
FormKey(name, text) == [name |-> name, text |-> text]

\* the words typed into the form: "n", "age", "gpg"
FormTexts == {<<110>>, <<97, 103, 101>>, <<103, 112, 103>>}

FormKeys ==
    {FormKey(k, <<>>) : k \in {"esc", "tab", "shift+tab", "enter"}}
    \cup {FormKey("runes", t) : t \in FormTexts}

\* FormModel.Update for a key message; focusIndex counts from 0
FormUpdate(m, key) ==
    LET n == Len(m.values)
    IN  CASE key.name = "esc" -> [m EXCEPT !.cancelled = TRUE]
          [] key.name = "tab" ->
                [m EXCEPT !.focusIndex = IF m.focusIndex + 1 >= n THEN 0 ELSE m.focusIndex + 1]
          [] key.name = "shift+tab" ->
                [m EXCEPT !.focusIndex = IF m.focusIndex - 1 < 0 THEN n - 1 ELSE m.focusIndex - 1]
          [] key.name = "enter" ->
                IF m.focusIndex = n - 1 THEN [m EXCEPT !.submitted = TRUE]
                ELSE [m EXCEPT !.focusIndex = m.focusIndex + 1]
          [] OTHER ->
                [m EXCEPT !.values[m.focusIndex + 1] = m.values[m.focusIndex + 1] \o key.text]

\* the word "age"
KeyTypeAge == <<97, 103, 101>>

\* the word "gpg"
KeyTypeGPG == <<103, 112, 103>>

\* App.updateGenericForm for a key message; values[i] of the code is
\* values[i + 1] here, and reading values[2] of a form of two fields panics
updateGenericForm(key) ==
    /\ InState({"StateKeygenForm"})
    /\ key.name = "runes" =>
          Len(app.form.values[app.form.focusIndex + 1]) + Len(key.text) <= MaxField
    /\ UNCHANGED fileBrowser
    /\ LET m       == FormUpdate(app.form, key)
           a       == [app EXCEPT !.from = app.state, !.form = m]
           values  == m.values
           keyType == IF values[1] = <<>> THEN KeyTypeAge ELSE values[1]
       IN  IF m.cancelled THEN app' = [a EXCEPT !.state = "StateMenu"] /\ NoFileOp
           ELSE IF ~m.submitted THEN app' = a /\ NoFileOp
           ELSE IF keyType = KeyTypeAge
           THEN /\ app' = [a EXCEPT !.state = "StateResult",
                                    !.call = Called("GenerateAge", <<>>)]
                /\ GenerateAgeRun
           ELSE IF keyType = KeyTypeGPG
           THEN /\ NoFileOp
                /\ IF Len(values) < 3 THEN app' = [a EXCEPT !.crashed = TRUE]
                   ELSE IF values[2] = <<>> \/ values[3] = <<>>
                   THEN app' = [a EXCEPT !.state = "StateResult",
                                         !.call = Called("required", <<>>)]
                   ELSE app' = [a EXCEPT !.state = "StateResult",
                                         !.call = Called("GenerateGPG", <<values[2], values[3]>>)]
           ELSE /\ app' = [a EXCEPT !.state = "StateResult",
                                    !.call = Called("unknown key type", <<>>)]
                /\ NoFileOp

UpdateGenericForm == \E key \in FormKeys : updateGenericForm(key)

\* App.updateKeygenSelect with the item Enter selects
updateKeygenSelect(item) ==
    /\ InState({"StateKeygenSelect"})
    /\ UNCHANGED fileBrowser
    /\ LET a == [app EXCEPT !.from = "StateKeygenSelect"]
       IN  CASE item = "back" -> app' = [a EXCEPT !.state = "StateMenu"] /\ NoFileOp
             [] item = "age" ->
                   /\ app' = [a EXCEPT !.state = "StateResult",
                                       !.call = Called("GenerateAge", <<>>)]
                   /\ GenerateAgeRun
             [] item = "gpg" ->
                   /\ app' = [a EXCEPT !.state = "StateKeygenForm",
                                       !.form = NewFormModel(<<<<>>, <<>>>>)]
                   /\ NoFileOp

UpdateKeygenSelect == \E item \in {"back", "age", "gpg"} : updateKeygenSelect(item)

\* App.updateProjectMenu with the item Enter selects
updateProjectMenu(item) ==
    /\ InState({"StateProjectMenu"})
    /\ app' = [app EXCEPT !.from = "StateProjectMenu",
                          !.state = IF item = "back" THEN "StateMenu" ELSE "StateResult"]
    /\ UNCHANGED fileBrowser
    /\ NoFileOp

UpdateProjectMenu ==
    \E item \in {"back", "init", "status", "encrypt-all", "decrypt-all"} : updateProjectMenu(item)

\* App.updateResult for Enter, Esc or q
UpdateResult ==
    /\ InState({"StateResult"})
    /\ app' = [app EXCEPT !.from = "StateResult", !.state = "StateMenu"]
    /\ UNCHANGED fileBrowser
    /\ NoFileOp

\* the working directory the terminal interface starts in: /w with the env
\* file .env and the file f
TuiTree ==
    Dir({<<InWorkDir(EnvName), File(EnvPlain, TRUE)>>,
         <<InWorkDir(PlainName), File(PemPlain, TRUE)>>})

\* podx without arguments: tui.Run starts the application
InitTui ==
    /\ fs = TuiTree
    /\ app = NewApp
    /\ fileBrowser = NoBrowser
    /\ dirW = TRUE
    /\ cfg = NoConfig
    /\ identity \in {0, 1}
    /\ rnd = 1
    /\ pc = "idle"
    /\ run = NoRun
    /\ ret = [op |-> "none", count |-> 0, err |-> "none"]
    /\ fs0 = fs
    /\ prev = [ret |-> ret, fs0 |-> fs, run |-> NoRun]
    /\ touched = {}
    /\ done = <<>>
    /\ runs = 0
    /\ args = NoArgs
    /\ macs = <<>>
    /\ tampered = FALSE

NextTui ==
    \/ UpdateMenu
    \/ UpdateAlgoSelect
    \/ UpdateEnvAlgoSelect
    \/ UpdateKeygenSelect
    \/ UpdateFileBrowser
    \/ UpdatePasswordForm
    \/ UpdateEnvPasswordForm
    \/ UpdateGenericForm
    \/ UpdateProjectMenu
    \/ UpdateResult
    \/ WriteOpen
    \/ WriteBytes
    \/ RemoveOriginal

SpecTui == InitTui /\ [][NextTui]_vars

----------------------------------------------------------------------------
(* Vocabulary of the project claims *)

\* the files encrypt-all is to encrypt in the directory f: matched by a secret
\* pattern and not carrying the ciphertext extension
Secrets(f) ==
    {p \in DOMAIN f : /\ ~HasSuffix(p, EncryptedExt)
                      /\ \E i \in 1..Len(cfg.secrets) : Match(cfg.secrets[i], p)}

\* what encrypt-all writes for the file name with the content data
EncryptData(name, data, keys, r) ==
    IF IsEnvName(Base(name)) THEN EncryptEnvData(data, keys, r)
    ELSE EncryptRegularData(data, keys, r)

\* what decrypt-all writes for the plaintext name from the ciphertext data
DecryptData(name, data, id) ==
    IF IsEnvName(Base(name)) THEN DecryptEnvData(data, id)
    ELSE DecryptRegularData(data, id)

\* the ciphertext of p is completely written: the whole output of an encryption
\* of the content p had in f
CipherComplete(f, p, keys) ==
    /\ p \o EncryptedExt \in DOMAIN fs
    /\ \E r \in 0..rnd :
          LET e == EncryptData(p, f[p].data, keys, r)
          IN  e.ok /\ fs[p \o EncryptedExt].data = e.val

\* the content holds a KEY=VALUE line whose value has the form ENC[age:...]
HasAgeCell(data) ==
    \E l \in Range(Split(data, 10)) :
        LET idx   == Index(l, 61)
            value == SubSeq(l, idx + 1, Len(l))
        IN  /\ TrimSpace(l) # <<>>
            /\ ~HasPrefix(TrimSpace(l), <<35>>)
            /\ idx # 0
            /\ HasPrefix(value, EncAgeMark)
            /\ HasSuffix(value, <<93>>)

Finished(op) == pc = "idle" /\ ret.op = op /\ ret.err # "killed"

\* decrypt-all has returned, the operation before it was an encrypt-all that
\* returned nil, and the local identity belongs to a recipient of that run
AfterRoundTrip ==
    /\ Finished("decryptAll")
    /\ prev.ret.op = "encryptAll" /\ prev.ret.err = "none"
    /\ identity # 0 /\ identity \in Range(prev.run.keys)

----------------------------------------------------------------------------
(* Vocabulary of the single-file claims *)

PasswordEncrypts == {"encryptFile", "handleEncrypt"}

PasswordDecrypts == {"decryptFile", "handleDecrypt"}

\* a password decryption has returned; the operation before it was a password
\* encryption that returned nil, and it was given the file that one wrote
AfterSeal ==
    /\ pc = "idle" /\ ret.op \in PasswordDecrypts /\ ret.err # "killed"
    /\ prev.ret.op \in PasswordEncrypts /\ prev.ret.err = "none"
    /\ samePath(run.path, prev.run.out)

\* the envelope that encryption wrote, the file the decryption was given, and
\* the plaintext that was sealed
SealedBytes == prev.run.buf

GivenBytes == fs0[Clean(run.path)].data

SealedPlain == prev.fs0[Clean(prev.run.path)].data

\* the given file differs from the envelope in a byte of the ciphertext region
CiphertextAltered ==
    /\ Len(GivenBytes) = Len(SealedBytes)
    /\ \E i \in (SaltSize + 2)..Len(SealedBytes) : GivenBytes[i] # SealedBytes[i]

----------------------------------------------------------------------------
(* C1 *)

\* C1: a password decryption (tui or cli) of an unaltered envelope that a
\* password encryption (tui or cli) wrote with a non-empty password and the
\* algorithm aes-gcm or chacha20, run with the same password, obtains exactly
\* the plaintext that was sealed, and writes it unless the write itself fails.
C1_PasswordRoundTrip ==
    (/\ AfterSeal
     /\ GivenBytes = SealedBytes
     /\ prev.run.pw # <<>> /\ run.pw = prev.run.pw
     /\ prev.run.algo \in {AlgoAESGCM, AlgoChaCha20}) =>
        /\ ret.err \in {"none", "write"}
        /\ run.buf = SealedPlain
        /\ ret.err = "none" =>
              (Clean(run.out) \in DOMAIN fs /\ fs[Clean(run.out)].data = SealedPlain)

\* the cli has decrypted what the tui sealed with chacha20
C1_Witness ==
    /\ AfterSeal /\ ret.err = "none"
    /\ ret.op = "handleDecrypt" /\ prev.ret.op = "encryptFile"
    /\ prev.run.algo = AlgoChaCha20 /\ run.pw = <<112>>
    /\ GivenBytes = SealedBytes
    /\ SealedPlain = EnvPlain
    /\ fs[PlainName].data = EnvPlain

----------------------------------------------------------------------------
(* C2 *)

\* C2: a password decryption given another password than the sealing one, or
\* an envelope with an altered byte in its ciphertext region, returns an error
\* before its write and leaves the directory as it found it; and a password
\* decryption of a sealed file, altered or not, never obtains another
\* plaintext than the sealed one.
C2_WrongPasswordOrAltered ==
    AfterSeal =>
        /\ (run.pw # prev.run.pw \/ CiphertextAltered) =>
              (ret.err \notin {"none", "write"} /\ fs = fs0)
        /\ ret.err \in {"none", "write"} => run.buf = SealedPlain

\* the tui was given an envelope with an altered ciphertext byte and the
\* sealing password, and has returned
C2_Witness ==
    /\ AfterSeal /\ ret.op = "decryptFile"
    /\ CiphertextAltered /\ run.pw = prev.run.pw
    /\ ret.err = "crypto"

----------------------------------------------------------------------------
(* C3 *)

----------------------------------------------------------------------------
(* C4 *)

TuiEncrypts == {"encryptFile", "envEncryptFile", "encryptWithAge"}

\* C4: at every point of encryptFile, envEncryptFile and encryptWithAge on an
\* existing input: once the operation has returned nil the input is gone and
\* the output exists, completely written; at every other point, an error
\* return included, the input is present and unchanged.
C4_RemoveAfterWrite ==
    (run.op \in TuiEncrypts /\ Clean(run.path) \in DOMAIN fs0) =>
        IF pc = "idle" /\ ret.err = "none"
        THEN /\ Clean(run.path) \notin DOMAIN fs
             /\ Clean(run.out) \in DOMAIN fs
             /\ ~tampered => fs[Clean(run.out)].data = run.buf
        ELSE /\ Clean(run.path) \in DOMAIN fs
             /\ fs[Clean(run.path)] = fs0[Clean(run.path)]

\* envEncryptFile has returned nil
C4_Witness ==
    /\ pc = "idle" /\ ret.op = "envEncryptFile" /\ ret.err = "none"
    /\ PlainName \in DOMAIN fs0 /\ PlainName \notin DOMAIN fs
    /\ PlainName \o ExtEnc \in DOMAIN fs

----------------------------------------------------------------------------
(* C5 *)

\* C5: when encrypt-all returns nil, every secret has a .podx sibling, its
\* plaintext is gone, and the count is the number of secrets.
C5_PlaintextRemoved ==
    (Finished("encryptAll") /\ ret.err = "none") =>
        /\ \A p \in Secrets(fs0) : p \o EncryptedExt \in DOMAIN fs /\ p \notin DOMAIN fs
        /\ ret.count = Cardinality(Secrets(fs0))

----------------------------------------------------------------------------
(* C6 *)

\* C6: at every point of an encryption, running, returned or interrupted,
\* every secret it started with (the secrets of the project for encrypt-all,
\* the input for a single-file command) has its plaintext file unchanged or
\* its ciphertext file completely written.
C6_NoSecretLost ==
    /\ run.op = "encryptAll" =>
          \A p \in Secrets(fs0) :
              \/ p \in DOMAIN fs /\ fs[p] = fs0[p]
              \/ CipherComplete(fs0, p, run.keys)
    /\ (IsEncryptOp(run.op) /\ Clean(run.path) \in DOMAIN fs0) =>
          \/ Clean(run.path) \in DOMAIN fs /\ fs[Clean(run.path)] = fs0[Clean(run.path)]
          \/ Clean(run.out) \in DOMAIN fs /\ fs[Clean(run.out)].data = run.buf

\* encrypt-all was interrupted after it removed the first of two secrets
C6_Witness ==
    /\ pc = "idle" /\ ret.op = "encryptAll" /\ ret.err = "killed"
    /\ {EnvName, PemName} \subseteq Secrets(fs0)
    /\ EnvName \notin DOMAIN fs /\ PemName \in DOMAIN fs

----------------------------------------------------------------------------
(* C7 *)

\* the paths an operation may have touched for the file q it iterates over
InOut(op, q) ==
    IF op = "encryptAll" THEN {q, q \o EncryptedExt} ELSE {q, TrimSuffix(q, EncryptedExt)}

\* C7: when encrypt-all or decrypt-all returns an error of one file, the count
\* is the number of files processed before it, each of them has its new state
\* (ciphertext written and plaintext removed; plaintext written), and nothing
\* but those files and the failing one was read, written or removed.
C7_BatchStops ==
    (pc = "idle" /\ ret.op \in {"encryptAll", "decryptAll"}
                 /\ ret.err \in {"read", "crypto", "write"}) =>
        LET allowed == UNION {InOut(ret.op, q) : q \in Range(done) \cup {run.path}}
        IN  /\ ret.count = Len(done)
            /\ touched \subseteq allowed
            /\ \A q \in (DOMAIN fs \cup DOMAIN fs0) \ allowed :
                  q \in DOMAIN fs /\ q \in DOMAIN fs0 /\ fs[q] = fs0[q]
            /\ \A q \in Range(done) \ {run.path} :
                  IF ret.op = "encryptAll"
                  THEN /\ CipherComplete(fs0, q, run.keys)
                       /\ q \notin DOMAIN fs \/ ~dirW
                  ELSE LET out == TrimSuffix(q, EncryptedExt)
                       IN  /\ out \in DOMAIN fs
                           /\ fs[out].data = DecryptData(out, fs[q].data, identity).val
            /\ \A j \in (run.idx + 1)..Len(run.matches) :
                  run.matches[j] \in touched => run.matches[j] \in allowed

\* encrypt-all has failed to read the second secret after the first one was
\* encrypted and removed
C7_Witness ==
    /\ pc = "idle" /\ ret.op = "encryptAll" /\ ret.err = "read"
    /\ ret.count = 1 /\ done = <<EnvName>>
    /\ run.path = PemName
    /\ EnvName \notin DOMAIN fs

\* decrypt-all fails on the second ciphertext after one file was restored
C7_WitnessDecrypt ==
    /\ pc = "idle" /\ ret.op = "decryptAll" /\ ret.err = "crypto"
    /\ ret.count = 1 /\ run.path = PemName \o EncryptedExt

----------------------------------------------------------------------------
(* C8 *)

\* C8: an encrypt-all that follows an encrypt-all that returned nil returns
\* nil with count 0 and leaves the directory as it found it.
C8_SecondRunNoOp ==
    (Finished("encryptAll") /\ prev.ret.op = "encryptAll" /\ prev.ret.err = "none") =>
        ret.err = "none" /\ ret.count = 0 /\ fs = fs0

----------------------------------------------------------------------------
(* C9 *)

\* C9: when an interrupted encrypt-all is followed by an encrypt-all that
\* returns nil, every secret of the first run has a ciphertext that every
\* recipient decrypts to its original content, and no plaintext secret is left.
C9_ResumeCompletes ==
    (Finished("encryptAll") /\ ret.err = "none"
        /\ prev.ret.op = "encryptAll" /\ prev.ret.err = "killed") =>
        \A p \in Secrets(prev.fs0) :
            /\ p \notin DOMAIN fs
            /\ p \o EncryptedExt \in DOMAIN fs
            /\ \A i \in 1..Len(cfg.recipients) :
                  LET d == DecryptData(p, fs[p \o EncryptedExt].data, cfg.recipients[i].Key)
                  IN  d.ok /\ d.val = prev.fs0[p].data

----------------------------------------------------------------------------
(* C10 *)

\* C10: with an empty recipient list encrypt-all returns count 0 and an error,
\* expands no pattern, and reads, writes and removes nothing.
C10_NoRecipientsFailsFast ==
    (pc = "idle" /\ ret.op = "encryptAll" /\ Len(cfg.recipients) = 0) =>
        /\ ret.count = 0 /\ ret.err = "norecipients"
        /\ run.pat = 0 /\ run.matches = <<>>
        /\ touched = {}
        /\ fs = fs0

\* encrypt-all has returned in a project without recipients that holds secrets
C10_Witness ==
    /\ pc = "idle" /\ ret.op = "encryptAll" /\ Len(cfg.recipients) = 0
    /\ {EnvName, PemName} \subseteq Secrets(fs)

----------------------------------------------------------------------------
(* C11 *)

\* C11: encrypt-all and decrypt-all never return the read error of a matched
\* file: an unreadable file is passed over, it is not among the files counted,
\* and a batch that returns nil has processed every readable file it matched.
C11_UnreadableSkipped ==
    (pc = "idle" /\ ret.op \in {"encryptAll", "decryptAll"} /\ ret.err # "killed") =>
        /\ ret.err # "read"
        /\ \A q \in Range(done) : fs0[q].acc
        /\ (ret.op = "encryptAll" /\ ret.err = "none") =>
              \A p \in Secrets(fs0) : fs0[p].acc => p \in Range(done)

----------------------------------------------------------------------------
(* C12 *)

----------------------------------------------------------------------------
(* C13 *)

DecryptOps ==
    {"decryptAll", "decryptFile", "handleDecrypt", "envDecryptFile", "handleEnvDecrypt"}

\* C13: every file a decryption creates (decrypt-all, the password commands,
\* the password env commands) is created with the mode 0600.
C13_PlaintextOwnerOnly ==
    run.op \in DecryptOps =>
        \A q \in DOMAIN fs \ DOMAIN fs0 : fs[q].mode = ModeSecret

----------------------------------------------------------------------------
(* Vocabulary of the env claims *)

EnvEncrypts == {"envEncryptFile", "handleEnvEncrypt"}

EnvDecrypts == {"envDecryptFile", "handleEnvDecrypt"}

\* what an env file says, line by line: the text of a comment, blank or
\* '='-less line, the key and the value of a KEY=VALUE line
LinePairs(data) ==
    LET lines == ScanLines(data)
    IN  [i \in 1..Len(lines) |->
           LET l   == lines[i]
               idx == Index(l, 61)
           IN  IF TrimSpace(l) = <<>> \/ HasPrefix(TrimSpace(l), <<35>>) \/ idx = 0
               THEN <<l>>
               ELSE <<TrimSpace(SubSeq(l, 1, idx - 1)), SubSeq(l, idx + 1, Len(l))>>]

\* the file holds a KEY=VALUE line whose value has the form ENC[<algo>:<payload>]
HasCell(data) ==
    \E p \in Range(LinePairs(data)) : Len(p) = 2 /\ FindEncrypted(p[2]).ok

\* the file holds a line that starts with the salt marker
HasSaltLine(data) ==
    \E l \in Range(ScanLines(data)) : HasPrefix(l, SaltMark)

\* a password env decryption has returned; the operation before it was a
\* password env encryption that returned nil, and it was given the file that
\* one wrote, unaltered, and the same password
AfterEnvSeal ==
    /\ pc = "idle" /\ ret.op \in EnvDecrypts /\ ret.err # "killed"
    /\ prev.ret.op \in EnvEncrypts /\ prev.ret.err = "none"
    /\ samePath(run.path, prev.run.out)
    /\ GivenBytes = SealedBytes
    /\ run.pw = prev.run.pw

\* the round trip: the decryption obtains the lines of the original file and
\* writes them unless the write itself fails
EnvRestored ==
    /\ ret.err \in {"none", "write"}
    /\ LinePairs(run.buf) = LinePairs(SealedPlain)
    /\ ret.err = "none" =>
          (Clean(run.out) \in DOMAIN fs /\ fs[Clean(run.out)].data = run.buf)

----------------------------------------------------------------------------
(* C14 *)

\* C14: for every env file, password env encrypt followed by password env
\* decrypt with the same password reproduces the key/value pairs and the
\* comment lines, in order, with no added or missing line.
C14_EnvRoundTripEveryFile == AfterEnvSeal => EnvRestored

\* the same for the env files that hold no value of the form
\* ENC[<algo>:<payload>] and no line that starts with the salt marker
PlainEnvRoundTrip ==
    (AfterEnvSeal /\ ~HasCell(SealedPlain) /\ ~HasSaltLine(SealedPlain)) => EnvRestored

----------------------------------------------------------------------------
(* C15 *)

\* the running or last command is an env command that has parsed its input
HasParsed ==
    /\ IsEnvOp(run.op)
    /\ ReadFile(fs0, run.path).ok
    /\ ~(pc = "idle" /\ ret.err \in {"required", "samepath", "notfound", "read"})

\* C15: the entries ParseEnvFile makes of a file, written back unmodified by
\* WriteEnvFile, give the bytes of the file.
C15_ParseWriteIdentity ==
    HasParsed =>
        EnvText(ParseEnv(fs0[Clean(run.path)].data)) = fs0[Clean(run.path)].data

----------------------------------------------------------------------------
(* C16 *)

\* the line is a KEY=VALUE line
IsPair(line) ==
    /\ TrimSpace(line) # <<>>
    /\ ~HasPrefix(TrimSpace(line), <<35>>)
    /\ Index(line, 61) # 0

ValueOf(line) == SubSeq(line, Index(line, 61) + 1, Len(line))

\* C16: when encrypt-all has returned nil, in the .podx file it has written for
\* an env-shaped secret every KEY=VALUE line whose value does not match
\* ENC[<algo-id>:<base64>] carries an ENC[age:...] cell in place of the value,
\* and not the line itself.
C16_ValuesEncrypted ==
    (pc = "idle" /\ ret.op = "encryptAll" /\ ret.err = "none") =>
        \A p \in Range(done) :
            IsEnvName(Base(p)) =>
                LET src == Split(fs0[p].data, 10)
                    out == Split(fs[p \o EncryptedExt].data, 10)
                IN  /\ Len(out) = Len(src)
                    /\ \A i \in 1..Len(src) :
                          (IsPair(src[i]) /\ ~FindEncrypted(ValueOf(src[i])).ok) =>
                              /\ out[i] # src[i]
                              /\ HasPrefix(ValueOf(out[i]), EncAgeMark)
                              /\ HasSuffix(ValueOf(out[i]), <<93>>)

----------------------------------------------------------------------------
(* C17 *)

\* C17: a password env decryption (tui or cli) of a readable file that holds
\* no salt marker line has returned an error as soon as it has started, with
\* no key derived, no value decrypted and the directory as it found it.
C17_MissingSaltFailsFirst ==
    (/\ run.op \in EnvDecrypts
     /\ ReadFile(fs0, run.path).ok
     /\ ~HasSaltLine(fs0[Clean(run.path)].data)) =>
        /\ pc = "idle"
        /\ ret.err \in {"required", "samepath", "nosalt"}
        /\ run.kdf = 0
        /\ run.buf = <<>>
        /\ run.entries \in {<<>>, ParseEnv(fs0[Clean(run.path)].data)}
        /\ fs = fs0

\* the cli was given a plain env file and a password, and has stopped for the
\* missing salt
C17_Witness ==
    /\ pc = "idle" /\ ret.op = "handleEnvDecrypt" /\ ret.err = "nosalt"
    /\ run.pw # <<>>
    /\ fs0[Clean(run.path)].data = EnvPlain
    /\ Len(run.entries) = 3

\* the tui has stopped for the missing salt on a file with encrypted values
C17_WitnessTui ==
    /\ pc = "idle" /\ ret.op = "envDecryptFile" /\ ret.err = "nosalt"
    /\ fs0[Clean(run.path)].data = EnvForeign

----------------------------------------------------------------------------
(* C18 *)

\* a password env encryption has completely written its output
EnvSealWritten ==
    /\ run.op \in EnvEncrypts
    /\ pc = "sf_remove" \/ (pc = "idle" /\ ret.err \in {"none", "remove"})

\* the lines of that output that start with the salt marker
SaltLines ==
    LET lines == ScanLines(fs[Clean(run.out)].data)
    IN  {i \in 1..Len(lines) : HasPrefix(lines[i], SaltMark)}

\* C18: the file a password env encryption has written holds exactly one
\* salt marker line, its first line, whatever the input file holds.
C18_OneSaltLineFirst == EnvSealWritten => SaltLines = {1}

\* the same for the inputs without a salt marker line
SaltLineOfPlain ==
    (EnvSealWritten /\ ~HasSaltLine(fs0[Clean(run.path)].data)) => SaltLines = {1}

----------------------------------------------------------------------------
(* C19 *)

\* the lines hold a KEY=VALUE line whose value has the form ENC[<algo>:<payload>]
\* with an algorithm outside the supported ones
HasForeignCell(lines, supported) ==
    \E l \in Range(lines) :
        /\ IsPair(l)
        /\ FindEncrypted(ValueOf(l)).ok
        /\ FindEncrypted(ValueOf(l)).algo \notin supported

\* "age", the one algorithm id decryptEnvFile decrypts
AlgoAge == <<97, 103, 101>>

\* a password env decryption of a readable file with such a value has returned
\* an error and has written nothing
EnvForeignFails ==
    (/\ run.op \in EnvDecrypts
     /\ ReadFile(fs0, run.path).ok
     /\ HasForeignCell(ScanLines(fs0[Clean(run.path)].data), {AlgoAESGCM, AlgoChaCha20})) =>
        /\ pc = "idle"
        /\ ret.err \notin {"none", "write"}
        /\ fs = fs0

\* C19 as stated: an env file with a value ENC[<algo-id>:<payload>] of an
\* algorithm the decrypting path does not support makes the decryption fail,
\* for the password env commands and for decrypt-all alike: decrypt-all
\* counts no env-shaped file that holds such a value.
C19_UnknownAlgorithmFails ==
    /\ EnvForeignFails
    /\ run.op = "decryptAll" =>
          \A p \in Range(done) :
              IsEnvName(Base(DecPath(p))) =>
                  ~HasForeignCell(Split(fs0[p].data, 10), {AlgoAge})

\* C19 amended: the password env commands alone.
C19_EnvUnknownAlgorithmFails == EnvForeignFails

\* the tui was given what the cli wrote for a file with a value ENC[x:...],
\* and has stopped at that value
C19_Witness ==
    /\ AfterEnvSeal /\ ret.op = "envDecryptFile" /\ ret.err = "algo"
    /\ SealedPlain = EnvForeign
    /\ run.kdf = 1
    /\ fs = fs0

----------------------------------------------------------------------------
(* C20 *)

\* C20: every entry of an env command's entry list that is marked encrypted,
\* by parseLine or by EncryptEnvValues, has a non-empty algorithm and a value
\* that is valid base64.
C20_EncryptedEntriesValid ==
    \A e \in Range(run.entries) :
        e.Encrypted => (e.Algorithm # <<>> /\ B64Decode(e.Value).ok)

\* what holds of every such entry: the algorithm and the value are not empty;
\* and of the entries EncryptEnvValues has marked: the algorithm is the
\* command's and the value is valid base64
EncryptedEntriesFormed ==
    LET parsed == ParseEnv(fs0[Clean(run.path)].data)
    IN  \A i \in 1..Len(run.entries) :
            LET e == run.entries[i]
            IN  e.Encrypted =>
                    /\ e.Algorithm # <<>> /\ e.Value # <<>>
                    /\ (/\ run.op \in EnvEncrypts
                        /\ Len(run.entries) = Len(parsed) + 1
                        /\ i >= 2 /\ ~parsed[i - 1].Encrypted) =>
                          /\ e.Algorithm \in {AlgoAESGCM, AlgoChaCha20}
                          /\ B64Decode(e.Value).ok

----------------------------------------------------------------------------
(* C21 *)

\* an env encryption has made its pass over the entries of its input
EnvPassMade ==
    /\ run.op \in EnvEncrypts
    /\ HasParsed
    /\ ~(pc = "idle" /\ ret.err = "kdf")

\* the algorithm the pass was given: the tui takes aes-gcm when none is chosen
ChosenAlgo ==
    IF run.op = "envEncryptFile" /\ run.algo = <<>> THEN AlgoAESGCM ELSE run.algo

\* the pass has returned an error
EnvPassFailed == pc = "idle" /\ ret.err = "crypto"

\* the entries as the pass left them: on success the command has put its salt
\* line in front of them
PassedEntries == IF EnvPassFailed THEN run.entries ELSE Tail(run.entries)

\* C21: EncryptEnvValues keeps the number and the order of the entries, leaves
\* every comment, blank line, line without '=' and every already-encrypted
\* entry as it was, and marks every other entry encrypted with the chosen
\* algorithm; with an unsupported algorithm it returns an error and changes
\* no entry.
C21_EnvPassFrame ==
    EnvPassMade =>
        LET parsed == ParseEnv(fs0[Clean(run.path)].data)
            out    == PassedEntries
        IN  /\ EnvPassFailed <=> ~NewEncryptor(ChosenAlgo)
            /\ Len(out) = Len(parsed)
            /\ \A i \in 1..Len(parsed) :
                  IF EnvPassFailed \/ parsed[i].IsComment \/ parsed[i].Encrypted
                  THEN out[i] = parsed[i]
                  ELSE /\ out[i].Encrypted
                       /\ out[i].Algorithm = ChosenAlgo
                       /\ out[i].Key = parsed[i].Key
                       /\ ~out[i].IsComment
                       /\ out[i].Raw = parsed[i].Raw

\* a pass over a file with an already-encrypted value and a plain value has
\* succeeded
C21_Witness ==
    /\ EnvPassMade /\ ~EnvPassFailed
    /\ LET parsed == ParseEnv(fs0[Clean(run.path)].data)
       IN  /\ \E i \in 1..Len(parsed) : parsed[i].Encrypted
           /\ \E i \in 1..Len(parsed) : ~parsed[i].IsComment /\ ~parsed[i].Encrypted

\* a pass with an unsupported algorithm has failed over a file with a plain
\* value
C21_WitnessUnsupported ==
    /\ EnvPassMade /\ EnvPassFailed
    /\ \E e \in Range(run.entries) : ~e.IsComment /\ ~e.Encrypted

----------------------------------------------------------------------------
(* C22 *)

AlgoTagPlace == SaltSize + 1

\* a password encryption has built its envelope
EnvelopeBuilt == run.op \in PasswordEncrypts /\ Len(run.buf) >= AlgoTagPlace

\* a password decryption has read the header of its input and chosen the
\* algorithm
HeaderRead == run.op \in PasswordDecrypts /\ run.kdf = 1

\* the algorithm tag of the file a decryption was given
GivenTag == fs0[Clean(run.path)].data[AlgoTagPlace]

\* C22: the byte at offset 16 of a password envelope determines the algorithm
\* in both directions: an encryption writes 0 exactly when it used aes-gcm and
\* 1 exactly when it used chacha20; a decryption uses aes-gcm only when the
\* byte is 0 and chacha20 only when it is 1.
C22_TagDeterminesAlgorithm ==
    /\ EnvelopeBuilt =>
          /\ run.buf[AlgoTagPlace] = 0 <=> run.algo = AlgoAESGCM
          /\ run.buf[AlgoTagPlace] = 1 <=> run.algo = AlgoChaCha20
    /\ HeaderRead =>
          /\ run.algo = AlgoAESGCM => GivenTag = 0
          /\ run.algo = AlgoChaCha20 => GivenTag = 1

\* what holds of the tag: an encryption writes it as the claim says, and a
\* decryption uses chacha20 exactly when the byte is 1 and aes-gcm for every
\* other byte
TagAsCoded ==
    /\ EnvelopeBuilt =>
          /\ run.buf[AlgoTagPlace] = 0 <=> run.algo = AlgoAESGCM
          /\ run.buf[AlgoTagPlace] = 1 <=> run.algo = AlgoChaCha20
    /\ HeaderRead =>
          /\ run.algo = AlgoChaCha20 <=> GivenTag = 1
          /\ run.algo = AlgoAESGCM <=> GivenTag # 1

\* an envelope whose tag is neither 0 nor 1 has been decrypted with aes-gcm
\* and its plaintext written
ForeignTagDecrypted ==
    /\ HeaderRead /\ pc = "idle" /\ ret.err = "none"
    /\ GivenTag \notin {0, 1}
    /\ fs[Clean(run.out)].data = SealedPlain

----------------------------------------------------------------------------
(* C23 *)

HeaderSize == SaltSize + 1

\* a password decryption was given a file shorter than the header
ShortInput ==
    /\ run.op \in PasswordDecrypts
    /\ Clean(run.path) \in DOMAIN fs0
    /\ Len(fs0[Clean(run.path)].data) < HeaderSize

\* C23: a password decryption given an input shorter than the 17-byte header
\* (16-byte salt, 1-byte algorithm tag) returns an error without deriving a key
\* and without touching any file.
C23_ShortInputRejected ==
    ShortInput =>
        /\ pc = "idle"
        /\ ret.op = run.op
        /\ ret.err \notin {"none", "write", "killed"}
        /\ run.kdf = 0
        /\ fs = fs0

\* the cli was given a readable file of fewer than 17 bytes, under a name
\* other than its output's, and has rejected it for its size
C23_Witness ==
    /\ ShortInput
    /\ ret.op = "handleDecrypt" /\ ret.err = "small"
    /\ Len(fs0[Clean(run.path)].data) > 0

\* the same for the tui, with an empty file
C23_WitnessTui ==
    /\ ShortInput
    /\ ret.op = "decryptFile" /\ ret.err = "small"
    /\ Len(fs0[Clean(run.path)].data) = 0

----------------------------------------------------------------------------
(* C24 *)

\* encrypt-all runs or has run with a recipient list that holds a key that is
\* no X25519 public key
UnparsableRecipient ==
    /\ run.op = "encryptAll"
    /\ \E k \in Range(run.keys) : ~ValidRecipient(k)

\* C24: when a key of the recipient list cannot be parsed, no encryption for
\* the list produces an envelope, and encrypt-all writes no ciphertext file
\* and deletes no plaintext file.
C24_UnparsableKeyAborts ==
    UnparsableRecipient =>
        /\ \A pt \in {fs0[p].data : p \in DOMAIN fs0} : ~AgeEncrypt(pt, run.keys, rnd).ok
        /\ fs = fs0

\* what holds with such a list: no value and no file is sealed, a file that
\* holds something to seal is not deleted, and the only files written are the
\* .podx files of the files that hold nothing to seal
NothingSealed ==
    UnparsableRecipient =>
        /\ \A pt \in {fs0[p].data : p \in DOMAIN fs0} : ~AgeEncrypt(pt, run.keys, rnd).ok
        /\ \A p \in DOMAIN fs0 :
              ~EncryptData(p, fs0[p].data, run.keys, rnd).ok => (p \in DOMAIN fs /\ fs[p] = fs0[p])
        /\ \A p \in DOMAIN fs :
              (p \notin DOMAIN fs0 \/ fs[p] # fs0[p]) =>
                  \E q \in DOMAIN fs0 :
                      /\ p = q \o EncryptedExt
                      /\ EncryptData(q, fs0[q].data, run.keys, rnd).ok

\* with such a list encrypt-all has written the .podx file of an env file
\* whose values are all in the encrypted form, and has deleted the env file
UnsealedEnvReplaced ==
    /\ UnparsableRecipient
    /\ pc = "idle" /\ ret.err = "none" /\ ret.count = 1
    /\ fs0[EnvName].data = EnvMixed
    /\ EnvName \notin DOMAIN fs
    /\ fs[EnvName \o EncryptedExt].data = EnvMixed

----------------------------------------------------------------------------
(* C25 *)

\* C25: whatever Init, AddRecipient and AddSecret calls were made, no two
\* recipients of the project configuration have the same public key.
C25_RecipientKeysUnique ==
    \A i, j \in 1..Len(cfg.recipients) :
        i # j => cfg.recipients[i].Key # cfg.recipients[j].Key

\* AddRecipient was called, under another name, with the key Init took from the
\* default recipient file, in a project that has a second recipient, and has
\* rejected it
C25_Witness ==
    /\ ret.op = "AddRecipient" /\ ret.err = "duplicate"
    /\ Len(cfg.recipients) >= 2
    /\ cfg.recipients[1] = Recipient(OwnerName, run.key)
    /\ run.name = MateName

----------------------------------------------------------------------------
(* C26 *)

IsPrefix(s, t) == Len(s) <= Len(t) /\ SubSeq(t, 1, Len(s)) = s

\* C26: AddRecipient and AddSecret only append. After a call the recipients
\* and the patterns that were there at entry are the beginning of the lists,
\* unchanged and in their order; a call that returned nil has added exactly
\* its argument at the end of its list and left the other list alone; a call
\* rejected as a duplicate has left the configuration as it was.
C26_AppendOnly ==
    ret.op \in {"AddRecipient", "AddSecret"} =>
        /\ IsPrefix(run.cfg0.recipients, cfg.recipients)
        /\ IsPrefix(run.cfg0.secrets, cfg.secrets)
        /\ cfg.version = run.cfg0.version
        /\ (ret.op = "AddRecipient" /\ ret.err = "none") =>
              /\ cfg.recipients = Append(run.cfg0.recipients, Recipient(run.name, run.key))
              /\ cfg.secrets = run.cfg0.secrets
        /\ (ret.op = "AddSecret" /\ ret.err = "none") =>
              /\ cfg.secrets = Append(run.cfg0.secrets, run.path)
              /\ cfg.recipients = run.cfg0.recipients
        /\ ret.err = "duplicate" => cfg = run.cfg0

\* AddSecret has added a second pattern to a project with two recipients
C26_Witness ==
    /\ ret.op = "AddSecret" /\ ret.err = "none"
    /\ cfg.secrets = <<EnvName, PemPattern>>
    /\ Len(cfg.recipients) = 2

\* AddSecret has rejected a pattern the project has
C26_WitnessDuplicate ==
    /\ ret.op = "AddSecret" /\ ret.err = "duplicate"
    /\ run.path = EnvName /\ cfg.secrets = <<EnvName>>

----------------------------------------------------------------------------
(* C27 *)

\* the updater has run twice in a row with the same configuration, and its
\* first run has returned nil
UpdaterRanTwice ==
    /\ ret.op = "UpdateGitignore" /\ prev.ret.op = "UpdateGitignore"
    /\ prev.ret.err = "none"
    /\ run.cfg0 = prev.run.cfg0

\* C27: a second run of the exclusion-list updater with an unchanged
\* configuration appends nothing: whatever the ignore file held at first, it
\* is after the second run byte for byte what it was after the first.
C27_UpdaterIdempotent == UpdaterRanTwice => fs = fs0

\* the content of the ignore file ends with a newline, or there is none
EndsWithNewline(f) ==
    GitignoreName \in DOMAIN f =>
        (f[GitignoreName].data = <<>> \/ HasSuffix(f[GitignoreName].data, <<10>>))

\* what holds: the second run appends nothing when the ignore file ended with
\* a newline, was empty or was not there before the first run
IdempotentAfterNewline ==
    (UpdaterRanTwice /\ EndsWithNewline(prev.fs0)) => fs = fs0

\* the second run has appended the header again
HeaderTwice ==
    /\ UpdaterRanTwice
    /\ fs[GitignoreName].data = fs0[GitignoreName].data \o GitignoreHeader \o <<10>>

----------------------------------------------------------------------------
(* C28 *)

\* the pattern is a line of the ignore file
Listed(f, pattern) ==
    /\ GitignoreName \in DOMAIN f
    /\ \E l \in Range(Split(f[GitignoreName].data, 10)) : TrimSpace(l) = TrimSpace(pattern)

\* C28: when encrypt-all has returned nil, every secret pattern of the project
\* configuration is listed in the ignore file, the patterns added after init
\* included.
C28_PatternsIgnoredAfterEncryptAll ==
    (pc = "idle" /\ ret.op = "encryptAll" /\ ret.err = "none") =>
        \A i \in 1..Len(cfg.secrets) : Listed(fs, cfg.secrets[i])

\* encrypt-all does not touch the ignore file
IgnoreFileUntouched ==
    run.op = "encryptAll" =>
        /\ GitignoreName \in DOMAIN fs <=> GitignoreName \in DOMAIN fs0
        /\ GitignoreName \in DOMAIN fs => fs[GitignoreName] = fs0[GitignoreName]

\* after init had listed its pattern, a pattern was added and encrypt-all has
\* encrypted a file; the added pattern is not listed
AddedPatternUnlisted ==
    /\ pc = "idle" /\ ret.op = "encryptAll" /\ ret.err = "none" /\ ret.count = 1
    /\ cfg.secrets = <<EnvName, PemPattern>>
    /\ Listed(fs, EnvName) /\ ~Listed(fs, PemPattern)

----------------------------------------------------------------------------
(* C29 *)

\* the private keys in the key file: the lines ended by a newline that hold
\* the mark and the octet of a key, in their order
CompleteKeys(f) ==
    IF AgeKeysFile \notin DOMAIN f THEN <<>>
    ELSE LET lines == Split(f[AgeKeysFile].data, 10)
             ended == SubSeq(lines, 1, Len(lines) - 1)
         IN  SelectSeq(ended, LAMBDA l : \E id \in 0..MaxKeys : l = PrivateKey(id))

\* C29: LoadAgeIdentity returns the last AGE-SECRET-KEY- line of the key file.
\* After a GenerateAge call that returned nil it returns the private key of
\* that call, the last of the keys generated so far; and every GenerateAge
\* call, failed or not, keeps the private keys that are in the file, in their
\* order: a successful call adds its key behind them.
C29_LastKeyWins ==
    ret.op = "GenerateAge" =>
        /\ IsPrefix(CompleteKeys(fs0), CompleteKeys(fs))
        /\ ret.err = "none" =>
              /\ LoadAgeIdentity(fs) = Ok(PrivateKey(run.key))
              /\ CompleteKeys(fs) = Append(CompleteKeys(fs0), PrivateKey(run.key))

\* the third key was generated after two others, all three calls returned
\* nil, and the key file holds the three keys in the order of generation
C29_Witness ==
    /\ ret.op = "GenerateAge" /\ ret.err = "none"
    /\ run.key = 3
    /\ CompleteKeys(fs) = <<PrivateKey(1), PrivateKey(2), PrivateKey(3)>>
    /\ LoadAgeIdentity(fs) = Ok(PrivateKey(3))

\* a key was generated after a call that failed in the middle of its key
\* line, in a file that began with a key line without a newline
C29_WitnessAfterFailure ==
    /\ ret.op = "GenerateAge" /\ ret.err = "none"
    /\ prev.ret.op = "GenerateAge" /\ prev.ret.err = "write"
    /\ HasPrefix(fs[AgeKeysFile].data, PrivateKey(0) \o <<35>>)
    /\ ~HasSuffix(fs0[AgeKeysFile].data, <<10>>)

----------------------------------------------------------------------------
(* C30 *)

\* a single-file encryption was given an output that is its input, under the
\* same or another spelling
SameFileGiven ==
    /\ IsEncryptOp(run.op)
    /\ run.path # <<>> /\ run.out # <<>>
    /\ samePath(run.path, run.out)

\* C30: an encryption whose input and output are the same path returns an
\* error before it derives a key, reads its input, writes or deletes: the
\* directory is as it was; and no encryption that has removed its input had
\* it for its output.
C30_SamePathRejected ==
    /\ SameFileGiven =>
          /\ pc = "idle"
          /\ ret.op = run.op
          /\ ret.err \in {"samepath", "required"}
          /\ run.kdf = 0
          /\ fs = fs0
    /\ \A p \in DOMAIN fs0 \ DOMAIN fs :
          (IsEncryptOp(run.op) \/ run.op = "encryptAll") => ~samePath(p, run.out)

\* the cli was asked to encrypt the file f to ./f and has refused
C30_Witness ==
    /\ SameFileGiven
    /\ run.op = "handleEncrypt" /\ ret.err = "samepath"
    /\ run.path # run.out
    /\ PlainName \in DOMAIN fs

\* the tui has refused an unreadable input for being its own output
C30_WitnessUnread ==
    /\ SameFileGiven
    /\ run.op \in TuiEncrypts /\ ret.err = "samepath"
    /\ ~ReadFile(fs, run.path).ok

----------------------------------------------------------------------------
(* C31 *)

\* a password encryption was asked for an algorithm that is neither aes-gcm
\* nor chacha20 (the tui's env form takes aes-gcm when no name is given)
UnknownAlgoGiven ==
    /\ run.op \in PasswordEncrypts \cup EnvEncrypts
    /\ ChosenAlgo \notin {AlgoAESGCM, AlgoChaCha20}

\* the command came as far as asking for the encryptor: its fields were given,
\* the paths differ, the input was read and the key derived
EncryptorAsked ==
    /\ run.kdf = 1
    /\ ret.err \notin {"kdf", "read"}

\* the error of crypto.NewEncryptor: returned as it is by the whole-file
\* commands, through parser.EncryptEnvValues by the env commands
UnknownAlgorithm == IF run.op \in EnvEncrypts THEN "crypto" ELSE "algo"

\* C31: a password encryption (whole file or env) asked for an algorithm other
\* than aes-gcm and chacha20 fails: it ends with an error, which is the
\* unknown-algorithm error once the encryptor is asked for, and the directory
\* is as it was (no output written, the input not deleted).
C31_UnknownAlgorithmFails ==
    UnknownAlgoGiven =>
        /\ pc = "idle"
        /\ ret.op = run.op
        /\ ret.err \in {"required", "samepath", "notfound", "read", "kdf", UnknownAlgorithm}
        /\ EncryptorAsked => ret.err = UnknownAlgorithm
        /\ fs = fs0

\* the tui's file encryption has refused the algorithm x for a readable file
C31_Witness ==
    /\ UnknownAlgoGiven /\ EncryptorAsked
    /\ run.op = "encryptFile" /\ run.algo = <<120>>
    /\ ret.err = "algo"
    /\ ReadFile(fs, run.path).ok

\* the cli's env encryption has refused an empty algorithm name
C31_WitnessEnv ==
    /\ UnknownAlgoGiven /\ EncryptorAsked
    /\ run.op = "handleEnvEncrypt" /\ run.algo = <<>>
    /\ ret.err = "crypto"

----------------------------------------------------------------------------
(* C32 *)

\* cli handleEncryptAll after p.EncryptAll has returned r: the kind of line it
\* prints, the numbers that line shows, and the exit status
handleEncryptAll(r) ==
    IF r.err # "none" THEN [line |-> "Error", counts |-> <<>>, status |-> 1]
    ELSE IF r.count = 0 THEN [line |-> "No files to encrypt", counts |-> <<>>, status |-> 0]
    ELSE [line |-> "Encrypted", counts |-> <<r.count>>, status |-> 0]

\* cli handleDecryptAll after p.DecryptAll has returned r
handleDecryptAll(r) ==
    IF r.err # "none" THEN [line |-> "Error", counts |-> <<>>, status |-> 1]
    ELSE IF r.count = 0 THEN [line |-> "No files to decrypt", counts |-> <<>>, status |-> 0]
    ELSE [line |-> "Decrypted", counts |-> <<r.count>>, status |-> 0]

\* what the cli command says at its end
CliOutput == IF ret.op = "encryptAll" THEN handleEncryptAll(ret) ELSE handleDecryptAll(ret)

\* encrypt-all or decrypt-all has returned an error after it had processed
\* at least one file
BatchAborted ==
    /\ pc = "idle"
    /\ ret.op \in {"encryptAll", "decryptAll"}
    /\ ret.err \notin {"none", "killed"}
    /\ ret.count > 0

\* C32: when encrypt-all or decrypt-all returns an error after k > 0 files
\* were processed, the cli command shows the count k and exits with a
\* non-zero status.
C32_PartialCountReported ==
    BatchAborted =>
        /\ CliOutput.status # 0
        /\ CliOutput.counts = <<ret.count>>

\* what the cli does then: it prints the error alone and exits with status 1
AbortPrintsErrorOnly ==
    BatchAborted =>
        /\ CliOutput.status = 1
        /\ CliOutput.line = "Error"
        /\ CliOutput.counts = <<>>

\* encrypt-all has sealed one file and returned the error of the next
CountDropped ==
    /\ BatchAborted
    /\ ret.op = "encryptAll" /\ ret.count = 1
    /\ CliOutput.counts = <<>>

----------------------------------------------------------------------------
(* C35 *)

\* AddRecipient or AddSecret has returned an error
ConfigCallFailed ==
    /\ pc = "idle"
    /\ ret.op \in {"AddRecipient", "AddSecret"}
    /\ ret.err # "none"

\* the configuration file holds the configuration in memory
ConfigPersisted ==
    /\ ConfigFileName \in DOMAIN fs
    /\ fs[ConfigFileName].data = Marshal(cfg)

\* C35: when AddRecipient or AddSecret returns an error (invalid key prefix,
\* duplicate, or failure to save), the configuration in memory is what it was
\* before the call and is what the configuration file holds.
C35_FailedCallKeepsConfig ==
    ConfigCallFailed =>
        /\ cfg = run.cfg0
        /\ ConfigPersisted

\* what holds of the two errors found before Save: neither the configuration
\* nor the directory has changed
RejectedCallKeepsConfig ==
    (ConfigCallFailed /\ ret.err \in {"invalid", "duplicate"}) =>
        /\ cfg = run.cfg0
        /\ fs = fs0

\* AddRecipient has failed to save: the new recipient is in the configuration
\* in memory and not in the configuration file
UnsavedRecipientKept ==
    /\ ConfigCallFailed
    /\ ret.op = "AddRecipient" /\ ret.err = "save"
    /\ Len(cfg.recipients) = Len(run.cfg0.recipients) + 1
    /\ ~ConfigPersisted

----------------------------------------------------------------------------
(* C36 *)

\* the public key of a private key: the key k for the private key of the
\* identity k, no key (-3) for a line that is no private key
PublicHalf(private) ==
    IF \E id \in 0..MaxKeys : private = PrivateKey(id)
    THEN private[Len(private)] - 800
    ELSE -3

\* the local recipient is the public half of the local identity
KeyPairInStep ==
    /\ LoadAgeIdentity(fs).ok
    /\ LoadAgeRecipient(fs).val = PublicHalf(LoadAgeIdentity(fs).val)

\* C36: after any sequence of GenerateAge calls, failed ones included, the key
\* LoadAgeRecipient returns is the public half of the identity LoadAgeIdentity
\* returns.
C36_RecipientMatchesIdentity ==
    (ret.op = "GenerateAge" /\ LoadAgeRecipient(fs).ok) => KeyPairInStep

\* what holds: right after a GenerateAge that returned no error the two agree
InStepAfterSuccess ==
    (ret.op = "GenerateAge" /\ ret.err = "none") =>
        /\ LoadAgeRecipient(fs).ok
        /\ KeyPairInStep
        /\ LoadAgeRecipient(fs).val = run.key

\* the second GenerateAge has appended its private key and its write has
\* failed before the newline: the recipient is the first key, the identity the
\* second
RecipientBehind ==
    /\ ret.op = "GenerateAge" /\ ret.err = "write"
    /\ LoadAgeRecipient(fs).ok /\ LoadAgeRecipient(fs).val = 1
    /\ LoadAgeIdentity(fs).ok /\ LoadAgeIdentity(fs).val = PrivateKey(2)

\* a GenerateAge has appended its private key and failed to write the public
\* key into the recipient file it had opened: the recipient is empty
RecipientEmptied ==
    /\ ret.op = "GenerateAge" /\ ret.err = "save"
    /\ LoadAgeRecipient(fs).ok /\ LoadAgeRecipient(fs).val = -1
    /\ LoadAgeIdentity(fs).ok /\ LoadAgeIdentity(fs).val = PrivateKey(run.key)

----------------------------------------------------------------------------
(* C37 *)

\* the pieces of the ignore file between its newlines; the last piece is a
\* line only when it is not empty
IgnoreLines(f) ==
    IF GitignoreName \in DOMAIN f THEN Split(f[GitignoreName].data, 10) ELSE <<>>

\* podx init or the updater on its own has returned
UpdaterReturned ==
    /\ pc = "idle"
    /\ ret.op \in {"Init", "UpdateGitignore"}

\* every line of the ignore file at entry is the same line now
OldLinesKept ==
    LET old == IgnoreLines(fs0)
        new == IgnoreLines(fs)
    IN  /\ Len(new) >= Len(old)
        /\ \A i \in 1..Len(old) : (i < Len(old) \/ old[i] # <<>>) => new[i] = old[i]

\* every pattern the updater had to append is a line of the ignore file
AppendedAsLines ==
    \A i \in 1..Len(newPatterns(fs0, run.cfg0)) :
        \E j \in 1..Len(IgnoreLines(fs)) :
            IgnoreLines(fs)[j] = newPatterns(fs0, run.cfg0)[i]

\* C37: the exclusion-list updater never alters what the ignore file held:
\* every line of it is the same line afterwards, and every pattern the updater
\* appends is a line of its own.
C37_UpdaterKeepsLines ==
    UpdaterReturned =>
        /\ OldLinesKept
        /\ (ret.op = "UpdateGitignore" /\ ret.err = "none") => AppendedAsLines

\* what holds: the claim for an ignore file that ended with a newline, was
\* empty or was not there
LinesKeptAfterNewline ==
    (UpdaterReturned /\ EndsWithNewline(fs0)) =>
        /\ OldLinesKept
        /\ (ret.op = "UpdateGitignore" /\ ret.err = "none") => AppendedAsLines

\* podx init has put the header on the last line of the ignore file, which had
\* no newline
LastLineGlued ==
    /\ UpdaterReturned /\ ret.op = "Init" /\ ret.err = "none"
    /\ IgnoreLines(fs0) = <<<<>>, OtherLine>>
    /\ IgnoreLines(fs)[2] = OtherLine \o GitignoreHeader

----------------------------------------------------------------------------
(* C38 *)

\* a password encryption was started with an empty password
EmptyPasswordGiven ==
    /\ run.op \in PasswordEncrypts \cup EnvEncrypts
    /\ run.pw = <<>>

\* C38: no password encryption (tui or cli, whole file or env) derives a key
\* from an empty password: the command is rejected before DeriveKey, and so
\* nothing is encrypted under it.
C38_NoEmptyPassword ==
    EmptyPasswordGiven =>
        /\ run.kdf = 0
        /\ pc = "idle"
        /\ ret.err # "none"
        /\ fs = fs0

\* what holds: the tui's encryptFile and envEncryptFile refuse an empty
\* password before anything else
TuiRefusesEmptyPassword ==
    (EmptyPasswordGiven /\ run.op \in TuiEncrypts) =>
        /\ run.kdf = 0
        /\ pc = "idle"
        /\ ret.err = "required"
        /\ fs = fs0

\* the cli has encrypted a file under the empty password typed at its prompt
\* and removed the plaintext
EmptyPasswordSealed ==
    /\ EmptyPasswordGiven
    /\ run.op \in {"handleEncrypt", "handleEnvEncrypt"}
    /\ pc = "idle" /\ ret.err = "none"
    /\ run.kdf = 1
    /\ Exists(fs, run.out) /\ ~Exists(fs, run.path)

----------------------------------------------------------------------------
(* C34 *)

\* C34: after any sequence of keys in the file browser, whenever the filtered
\* list is not empty the cursor is an index into it and the scroll offset lies
\* between 0 and the cursor, and neither Enter nor the rendering of the list
\* has indexed out of range.
C34_CursorInRange ==
    fileBrowser # NoBrowser =>
        /\ ~fileBrowser.panic
        /\ Len(fileBrowser.filtered) > 0 =>
              /\ fileBrowser.cursor \in 0..(Len(fileBrowser.filtered) - 1)
              /\ fileBrowser.offset \in 0..fileBrowser.cursor

\* the search has shortened the list and put the cursor to 0: the offset is
\* left behind the cursor
OffsetPastCursor ==
    /\ fileBrowser # NoBrowser
    /\ fileBrowser.searchQuery # <<>>
    /\ Len(fileBrowser.filtered) > 0
    /\ fileBrowser.cursor = 0 /\ fileBrowser.offset > 0

\* hidden files are switched off again with the cursor on the last entry: the
\* cursor is behind the end of the list
CursorPastEnd ==
    /\ fileBrowser # NoBrowser
    /\ ~fileBrowser.showHidden /\ fileBrowser.searchQuery = <<>>
    /\ Len(fileBrowser.filtered) > 0
    /\ fileBrowser.cursor >= Len(fileBrowser.filtered)

\* Enter or the rendering has indexed out of range with a list that is not
\* empty
BrowserPanicked ==
    /\ fileBrowser # NoBrowser
    /\ fileBrowser.panic
    /\ Len(fileBrowser.filtered) > 0

----------------------------------------------------------------------------
(* C33 *)

\* the env codec of the tui
EnvCodec == {"envEncryptFile", "envDecryptFile"}

\* C33: whenever the tui shows the main menu the env-mode flag is false, and so
\* a file chosen in the 'Encrypt File' or 'Decrypt File' flow, the Age choices
\* among them, is never handed to envEncryptFile or envDecryptFile, whatever
\* was started and cancelled before.
C33_MenuClearsEnvMode ==
    app # NoApp =>
        /\ app.state = "StateMenu" => ~app.isEnvMode
        /\ app.flow \in {"encrypt", "decrypt"} => app.call.fn \notin EnvCodec

\* what holds: the env flows clear the flag when they leave through the
\* algorithm menu or the password form
EnvExitsClearEnvMode ==
    (/\ app # NoApp
     /\ app.state \in {"StateMenu", "StateResult"}
     /\ app.from \in {"StateEnvAlgoSelect", "StateEnvPassword", "StateEnvDecryptPassword"})
        => ~app.isEnvMode

\* Esc in the file browser of an env flow: the main menu is shown with the
\* flag still set
EnvModeAtMenu ==
    /\ app # NoApp
    /\ app.state = "StateMenu"
    /\ app.from \in {"StateEnvFileBrowser", "StateEnvDecryptBrowser"}
    /\ app.isEnvMode

\* after that, the file f chosen under 'Encrypt File' was encrypted line by
\* line as an env file into f.podx and removed
EnvCodecInEncryptFlow ==
    /\ app # NoApp
    /\ app.flow = "encrypt"
    /\ app.call.fn = "envEncryptFile"
    /\ run.op = "envEncryptFile" /\ pc = "idle" /\ ret.err = "none"
    /\ run.path = JoinPath(WorkDir, PlainName)
    /\ Exists(fs, run.path \o EncryptedExt) /\ ~Exists(fs, run.path)

----------------------------------------------------------------------------
(* C39 *)

\* the form of 'GPG Key' was submitted with a name and an email, and
\* updateGenericForm has run on the submission
GPGFormSubmitted ==
    /\ app # NoApp
    /\ app.from = "StateKeygenForm"
    /\ app.form.submitted
    /\ app.form.values[1] # <<>> /\ app.form.values[2] # <<>>

\* C39: submitting the form of 'GPG Key' with a non-empty name and email calls
\* the GPG key generation with exactly that name and email: no Age key is
\* generated, no unknown key type is reported and no field that the form does
\* not have is read.
C39_GPGFormGeneratesGPG ==
    GPGFormSubmitted =>
        /\ ~app.crashed
        /\ app.state = "StateResult"
        /\ app.call = Called("GenerateGPG", <<app.form.values[1], app.form.values[2]>>)

\* what holds: no handler of the tui ever calls keygen.GenerateGPG
GPGNeverGenerated == app # NoApp => app.call.fn # "GenerateGPG"

\* the name "age": an Age key pair was generated and stored
GPGFormMadeAgeKey ==
    /\ GPGFormSubmitted
    /\ app.form.values[1] = KeyTypeAge
    /\ app.call.fn = "GenerateAge"
    /\ ret.op = "GenerateAge" /\ ret.err = "none"
    /\ fs # fs0

\* the name "gpg": the third value of a form of two fields is read
GPGFormPanicked ==
    /\ GPGFormSubmitted
    /\ app.form.values[1] = KeyTypeGPG
    /\ app.crashed

\* any other name: "Unknown key type" is the result
GPGFormUnknownType ==
    /\ GPGFormSubmitted
    /\ app.form.values[1] = <<110>>
    /\ app.state = "StateResult"
    /\ app.call.fn = "unknown key type"

====
